---- MODULE Spec2Model ----
(***************************************************************************)
(* Stream replay core of file_search: the btrfs send-stream parser.       *)
(* Bytes are naturals 0..255, the stream is a sequence of bytes, and the   *)
(* parser state is that of btrfs::parser::Parser.  Integers wider than 32  *)
(* bits (u64, u128) are kept as their little-endian byte strings.          *)
(***************************************************************************)
EXTENDS Integers, Sequences, FiniteSets, TLC

VARIABLES
    data,            \* the bytes the source delivers before EOF
    fail,            \* {} or {n}: the source fails every read once n bytes were delivered
    bypass_errors,   \* Settings::bypass_errors
    pc,              \* position of parse(): "start", "loop", "done"
    offset,          \* OffsetedReader::offset of the outer reader
    current_subvol,  \* Parser::current_subvol, <<>> or <<subvolume>>
    result,          \* Parser::result
    command_no,      \* Parser::command_no
    ret,             \* what parse() returned: "none", "Ok", "Err"
    last,            \* the latest read_header / read_command call: where it started,
                     \* the parser state it started from, and what it returned
    ended,           \* history: the subvolume each executed End command closed
    iteration,       \* parity of the number of iterations the loop of parse() has made
    subvol,          \* a SubvolumeInfo that file commands and del_file are applied to
    trail,           \* history: the latest operation on subvol, and behind it the one
                     \* before when that was a Rename that succeeded
    live,            \* history: the paths whose latest successful operation was an add
    nops,            \* the number of operations applied to subvol
    first,           \* history: what an earlier call of parse returned, and what the
                     \* call that followed it was given differently
    mixed,           \* a byte string, the MixedString made from it, and its bytes again
    timespec         \* what read_timespec, called on a reader over data, returned

vars == <<data, fail, bypass_errors, pc, offset, current_subvol, result, command_no, ret,
          last, ended, iteration, subvol, trail, live, nops, first, mixed, timespec>>

----------------------------------------------------------------------------
(* Helpers *)

Min(S) == CHOOSE x \in S : \A y \in S : x <= y

Some(v) == <<v>>

None == <<>>

IsSome(o) == Len(o) = 1

Unwrap(o) == o[1]

Rep(b, n) == [i \in 1..n |-> b]

\* the element of a one-element set.  Only({F(x) : x \in {e}}) is F(e) with e
\* evaluated once, whatever the number of places F uses it in.
Only(S) == CHOOSE y \in S : TRUE

----------------------------------------------------------------------------
(* Byte source, OffsetedReader and Read::take.  A reader is the position   *)
(* pos in the outer stream together with the set lims of absolute limits   *)
(* of the take() windows it sits in.                                       *)

\* first position at which a read cannot deliver a byte any more
Stop(lims) == Min({Len(data)} \cup lims \cup fail)

\* what the read at the stop position yields: Take returns Ok(0) at its limit
\* without touching the source, a failed source returns an I/O error, the
\* end of the data is Ok(0)
StopKind(lims) ==
    IF Stop(lims) \in lims THEN "UnexpectedEof"
    ELSE IF Stop(lims) \in fail THEN "Io"
    ELSE "UnexpectedEof"

\* Read::read_exact of n bytes: all n bytes, or the bytes before the stop
\* position are consumed and the call fails
ReadExact(pos, lims, n) ==
    Only({ IF pos + n <= stop
           THEN [ok |-> TRUE, pos |-> pos + n, bytes |-> SubSeq(data, pos + 1, pos + n),
                 err |-> "none"]
           ELSE [ok |-> FALSE, pos |-> stop, bytes |-> <<>>, err |-> StopKind(lims)]
           : stop \in {Stop(lims)} })

\* Read::read_to_end: everything up to the stop position; fails only on I/O
ReadToEnd(pos, lims) ==
    Only({ [ok |-> kind # "Io", pos |-> stop, bytes |-> SubSeq(data, pos + 1, stop),
            err |-> IF kind = "Io" THEN "Io" ELSE "none"]
           : stop \in {Stop(lims)}, kind \in {StopKind(lims)} })

----------------------------------------------------------------------------
(* Header *)

CORRECT_MAGIC == <<98, 116, 114, 102, 115, 45, 115, 116, 114, 101, 97, 109, 0>>

VERSION_ONE == <<1, 0, 0, 0>>

\* read_header that takes any version
read_header_any_version ==
    Only({ IF ~m.ok THEN [ok |-> FALSE, pos |-> m.pos, err |-> m.err]
           ELSE IF m.bytes # CORRECT_MAGIC THEN [ok |-> FALSE, pos |-> m.pos, err |-> "InvalidData"]
           ELSE Only({ IF ~v.ok THEN [ok |-> FALSE, pos |-> v.pos, err |-> v.err]
                       ELSE [ok |-> TRUE, pos |-> v.pos, err |-> "none"]
                       : v \in {ReadExact(m.pos, {}, Len(VERSION_ONE))} })
           : m \in {ReadExact(0, {}, Len(CORRECT_MAGIC))} })

\* Parser::read_header on the outer reader at offset 0
read_header ==
    Only({ IF ~m.ok THEN [ok |-> FALSE, pos |-> m.pos, err |-> m.err]
           ELSE IF m.bytes # CORRECT_MAGIC THEN [ok |-> FALSE, pos |-> m.pos, err |-> "InvalidData"]
           ELSE Only({ IF ~v.ok THEN [ok |-> FALSE, pos |-> v.pos, err |-> v.err]
                       ELSE IF v.bytes # VERSION_ONE
                       THEN [ok |-> FALSE, pos |-> v.pos, err |-> "InvalidData"]
                       ELSE [ok |-> TRUE, pos |-> v.pos, err |-> "none"]
                       : v \in {ReadExact(m.pos, {}, Len(VERSION_ONE))} })
           : m \in {ReadExact(0, {}, Len(CORRECT_MAGIC))} })

----------------------------------------------------------------------------
(* Little-endian integers.  u16 values are numbers; a u32 frame size is a  *)
(* number saturated at SizeCap (it is only ever used as a take() limit and *)
(* every stream of the model is shorter than that); u64 and u128 values    *)
(* stay little-endian byte strings, which are in bijection with them.      *)

U16(bytes) == bytes[1] + 256 * bytes[2]

SizeCap == 65536

U32(bytes) == IF bytes[3] = 0 /\ bytes[4] = 0 THEN U16(bytes) ELSE SizeCap

\* a < b for two little-endian byte strings of the same length
RECURSIVE LeLess(_, _)
LeLess(a, b) ==
    IF Len(a) = 0 THEN FALSE
    ELSE IF a[Len(a)] # b[Len(b)] THEN a[Len(a)] < b[Len(b)]
    ELSE LeLess(SubSeq(a, 1, Len(a) - 1), SubSeq(b, 1, Len(b) - 1))

\* num_traits::Bounded::max_value() of u64 and of u128
MaxU64 == Rep(255, 8)

MaxU128 == Rep(255, 16)

----------------------------------------------------------------------------
(* MixedString::from_bytes, with core::str::from_utf8's report of the      *)
(* first error: valid_up_to and error_len (0 stands for error_len = None,  *)
(* a truncated sequence at the end of the input).                          *)

IsCont(b) == b >= 128 /\ b <= 191

\* length of the well-formed UTF-8 sequence at the head of s, or the error:
\* [ok, len]; not ok and len = 0 is the truncated tail
Utf8Head(s) ==
    LET b1 == s[1]
        n == Len(s)
        second_ok ==
            \/ b1 = 224 /\ s[2] >= 160 /\ s[2] <= 191
            \/ b1 >= 225 /\ b1 <= 236 /\ IsCont(s[2])
            \/ b1 = 237 /\ s[2] >= 128 /\ s[2] <= 159
            \/ b1 >= 238 /\ b1 <= 239 /\ IsCont(s[2])
            \/ b1 = 240 /\ s[2] >= 144 /\ s[2] <= 191
            \/ b1 >= 241 /\ b1 <= 243 /\ IsCont(s[2])
            \/ b1 = 244 /\ s[2] >= 128 /\ s[2] <= 143
        width == IF b1 < 128 THEN 1
                 ELSE IF b1 >= 194 /\ b1 <= 223 THEN 2
                 ELSE IF b1 >= 224 /\ b1 <= 239 THEN 3
                 ELSE IF b1 >= 240 /\ b1 <= 244 THEN 4
                 ELSE 0
    IN  IF width = 1 THEN [ok |-> TRUE, len |-> 1]
        ELSE IF width = 0 THEN [ok |-> FALSE, len |-> 1]
        ELSE IF n < 2 THEN [ok |-> FALSE, len |-> 0]
        ELSE IF width = 2 THEN
            IF IsCont(s[2]) THEN [ok |-> TRUE, len |-> 2] ELSE [ok |-> FALSE, len |-> 1]
        ELSE IF ~second_ok THEN [ok |-> FALSE, len |-> 1]
        ELSE IF n < 3 THEN [ok |-> FALSE, len |-> 0]
        ELSE IF ~IsCont(s[3]) THEN [ok |-> FALSE, len |-> 2]
        ELSE IF width = 3 THEN [ok |-> TRUE, len |-> 3]
        ELSE IF n < 4 THEN [ok |-> FALSE, len |-> 0]
        ELSE IF ~IsCont(s[4]) THEN [ok |-> FALSE, len |-> 3]
        ELSE [ok |-> TRUE, len |-> 4]

\* byte i of s lies in a well-formed sequence, which starts at most 3 bytes
\* before it
Covered(s, i) ==
    \E k \in 0..3 :
        /\ i - k >= 1
        /\ \E h \in {Utf8Head(SubSeq(s, i - k, IF i - k + 3 < Len(s) THEN i - k + 3 ELSE Len(s)))} :
               h.ok /\ h.len > k

\* Utf8Error::valid_up_to of s: the number of bytes before the first one that
\* lies in no well-formed sequence (Len(s) when s is valid)
ValidUpTo(s) ==
    Only({ IF bad = {} THEN Len(s) ELSE Min(bad) - 1
           : bad \in {{i \in 1..Len(s) : ~Covered(s, i)}} })

StringSeg(bytes) == [kind |-> "String", bytes |-> bytes]

ByteSeg(bytes) == [kind |-> "Byte", bytes |-> bytes]

UnexpectedEOFSeg == [kind |-> "UnexpectedEOF", bytes |-> <<>>]

\* one turn of the loop of from_bytes on the input left: the segments it
\* pushes, and the input it leaves when it does not break
from_bytes_turn(input) ==
    Only({ IF v = Len(input) THEN [break |-> TRUE, segs |-> <<StringSeg(input)>>, input |-> <<>>]
           ELSE Only({
               IF e.len > 0
               THEN [break |-> FALSE,
                     segs |-> (IF v > 0 THEN <<StringSeg(SubSeq(input, 1, v))>> ELSE <<>>)
                              \o <<ByteSeg(SubSeq(input, v + 1, v + e.len))>>,
                     input |-> SubSeq(input, v + e.len + 1, Len(input))]
               ELSE [break |-> TRUE,
                     segs |-> (IF v > 0 THEN <<StringSeg(SubSeq(input, 1, v))>> ELSE <<>>)
                              \o <<ByteSeg(SubSeq(input, v + 1, Len(input))), UnexpectedEOFSeg>>,
                     input |-> <<>>]
               : e \in {Utf8Head(SubSeq(input, v + 1, Len(input)))} })
           : v \in {ValidUpTo(input)} })

\* the loop of from_bytes, res the segments pushed so far
RECURSIVE from_bytes_loop(_, _)
from_bytes_loop(res, input) ==
    Only({ IF t.break THEN res \o t.segs ELSE from_bytes_loop(res \o t.segs, t.input)
           : t \in {from_bytes_turn(input)} })

from_bytes(input) == from_bytes_loop(<<>>, input)

\* a to_bytes that writes a byte for the truncation marker
RECURSIVE to_bytes_marker(_)
to_bytes_marker(segs) ==
    IF Len(segs) = 0 THEN <<>>
    ELSE (IF Head(segs).kind = "UnexpectedEOF" THEN <<255>> ELSE Head(segs).bytes)
         \o to_bytes_marker(Tail(segs))

\* MixedString::to_bytes: the bytes of the String and Byte segments, nothing
\* for UnexpectedEOF
RECURSIVE to_bytes(_)
to_bytes(segs) ==
    IF Len(segs) = 0 THEN <<>>
    ELSE (IF Head(segs).kind = "UnexpectedEOF" THEN <<>> ELSE Head(segs).bytes)
         \o to_bytes(Tail(segs))

\* a sequence in the opposite order (slice::reverse, Iterator::rev)
Rev(s) == [i \in 1..Len(s) |-> s[Len(s) + 1 - i]]

\* the chars of a str, each as the bytes of its UTF-8 sequence
RECURSIVE Chars(_)
Chars(s) ==
    IF Len(s) = 0 THEN <<>>
    ELSE Only({ <<SubSeq(s, 1, h.len)>> \o Chars(SubSeq(s, h.len + 1, Len(s)))
                : h \in {Utf8Head(s)} })

\* Grapheme_Cluster_Break of a char, for the chars the byte strings of the
\* check can hold: CR, LF, the combining marks U+0300..U+033F (lead byte
\* 0xCC), and letters, signs and spaces of the class Other
GraphemeClass(c) ==
    IF c = <<13>> THEN "CR"
    ELSE IF c = <<10>> THEN "LF"
    ELSE IF Len(c) = 2 /\ c[1] = 204 THEN "Extend"
    ELSE "Other"

\* no cluster boundary between the chars p and c next to each other:
\* CR x LF (GB3), and x Extend unless after CR or LF (GB4, GB9)
Joined(p, c) ==
    \/ GraphemeClass(p) = "CR" /\ GraphemeClass(c) = "LF"
    \/ GraphemeClass(c) = "Extend" /\ GraphemeClass(p) \notin {"CR", "LF"}

\* UnicodeSegmentation::graphemes(true) on chars: the extended grapheme
\* clusters, each as its bytes; done holds the clusters closed so far
RECURSIVE graphemes_from(_, _)
graphemes_from(done, chars) ==
    IF Len(chars) = 0 THEN done
    ELSE IF Len(done) > 0 /\ Joined(done[Len(done)].tail, chars[1])
    THEN graphemes_from(
             [done EXCEPT ![Len(done)] = [bytes |-> @.bytes \o chars[1], tail |-> chars[1]]],
             Tail(chars))
    ELSE graphemes_from(Append(done, [bytes |-> chars[1], tail |-> chars[1]]), Tail(chars))

graphemes(s) == Only({ [i \in 1..Len(g) |-> g[i].bytes] : g \in {graphemes_from(<<>>, Chars(s))} })

\* s.graphemes(true).rev().collect(): the clusters of s in the opposite
\* order, each with its bytes in place
graphemes_rev(s) == to_bytes([i \in 1..Len(graphemes(s)) |-> StringSeg(Rev(graphemes(s))[i])])

\* a reverse that leaves the raw-byte segments as they are
reverse_keep_bytes(segs) ==
    Rev([i \in 1..Len(segs) |->
            IF segs[i].kind = "String" THEN StringSeg(graphemes_rev(segs[i].bytes))
            ELSE segs[i]])

\* MixedString::reverse: every String segment by grapheme clusters, every
\* Byte segment byte-wise, UnexpectedEOF untouched; then the segments
reverse(segs) ==
    Rev([i \in 1..Len(segs) |->
            IF segs[i].kind = "String" THEN StringSeg(graphemes_rev(segs[i].bytes))
            ELSE IF segs[i].kind = "Byte" THEN ByteSeg(Rev(segs[i].bytes))
            ELSE segs[i]])

----------------------------------------------------------------------------
(* Primitive decoders (AdvancedReader) *)

\* 2_000_000_000 as a little-endian u32: nanoseconds must lie below it
NANOS_LIMIT == <<0, 148, 53, 119>>

\* the first second after 262143-12-31 23:59:59, the last NaiveDateTime, as a
\* little-endian u64 (95026602 days after the epoch)
SECS_LIMIT == <<0, 159, 235, 155, 119, 7, 0, 0>>

\* the integer of up to four little-endian bytes, below 2^31
ToInt(bytes) ==
    (IF Len(bytes) >= 1 THEN bytes[1] ELSE 0)
    + (IF Len(bytes) >= 2 THEN 256 * bytes[2] ELSE 0)
    + (IF Len(bytes) >= 3 THEN 65536 * bytes[3] ELSE 0)
    + (IF Len(bytes) >= 4 THEN 16777216 * bytes[4] ELSE 0)

\* bytes + 1 on little-endian bytes, wrapping
RECURSIVE AddOne(_)
AddOne(bytes) ==
    IF Len(bytes) = 0 THEN <<>>
    ELSE IF bytes[1] < 255 THEN <<bytes[1] + 1>> \o Tail(bytes)
    ELSE <<0>> \o AddOne(Tail(bytes))

\* the magnitude of the negative two's-complement number with these bytes
Negate(bytes) == AddOne([i \in 1..Len(bytes) |-> 255 - bytes[i]])

\* bytes[1..i] with rem carried in from the bytes above, divided by d:
\* quotient bytes and remainder
RECURSIVE DivFrom(_, _, _, _)
DivFrom(bytes, d, i, rem) ==
    IF i = 0 THEN [q |-> <<>>, r |-> rem]
    ELSE Only({ [q |-> Append(rest.q, (rem * 256 + bytes[i]) \div d), r |-> rest.r]
                : rest \in {DivFrom(bytes, d, i - 1, (rem * 256 + bytes[i]) % d)} })

\* an i64 as its sign and the little-endian bytes of its magnitude
\* i64::from_u64 of num_traits: None above i64::MAX
i64_from_u64(s) == IF s[8] < 128 THEN Some([neg |-> FALSE, mag |-> s]) ELSE None

\* s as i64: the two's-complement reinterpretation
as_i64(s) == IF s[8] < 128 THEN [neg |-> FALSE, mag |-> s] ELSE [neg |-> TRUE, mag |-> Negate(s)]

\* days after the epoch of NaiveDate::MIN (-262144-01-01) and NaiveDate::MAX
\* (262143-12-31)
MIN_DAYS == -96465659

MAX_DAYS == 95026601

\* NaiveDateTime::from_timestamp_opt(secs, nsecs): the day secs.div_euclid(86400)
\* must be a NaiveDate, and nsecs lie below 2_000_000_000; the NaiveDateTime
\* is the day, the second of the day and the nanoseconds
from_timestamp_opt(secs, nsecs) ==
    Only({ IF \/ \E i \in 5..8 : dm.q[i] # 0
              \/ dm.q[4] >= 128
              \/ nsecs[4] >= 128
              \/ ToInt(nsecs) >= 2000000000
           THEN None
           ELSE Only({ IF days < MIN_DAYS \/ days > MAX_DAYS THEN None
                       ELSE Some([days |-> days,
                                  secs |-> IF secs.neg /\ dm.r # 0 THEN 86400 - dm.r ELSE dm.r,
                                  frac |-> ToInt(nsecs)])
                       : days \in {IF ~secs.neg THEN ToInt(SubSeq(dm.q, 1, 4))
                                   ELSE IF dm.r = 0 THEN 0 - ToInt(SubSeq(dm.q, 1, 4))
                                   ELSE 0 - ToInt(SubSeq(dm.q, 1, 4)) - 1} })
           : dm \in {DivFrom(secs.mag, 86400, 8, 0)} })

\* i64::from_u64 succeeds and NaiveDateTime::from_timestamp_opt accepts the pair
TimestampValid(s, ns) ==
    /\ IsSome(i64_from_u64(s))
    /\ IsSome(from_timestamp_opt(Unwrap(i64_from_u64(s)), ns))

\* AdvancedReader::read_timespec of src/parser.rs: the seconds are cast with
\* `s as i64` before from_timestamp_opt sees them
Monolith_read_timespec(pos, lims) ==
    Only({ IF ~s.ok THEN [ok |-> FALSE, pos |-> s.pos, err |-> s.err, val |-> <<>>, dt |-> None]
           ELSE Only({ IF ~ns.ok
                       THEN [ok |-> FALSE, pos |-> ns.pos, err |-> ns.err, val |-> <<>>, dt |-> None]
                       ELSE Only({ IF ~IsSome(dt)
                                   THEN [ok |-> FALSE, pos |-> ns.pos, err |-> "InvalidData",
                                         val |-> <<>>, dt |-> None]
                                   ELSE [ok |-> TRUE, pos |-> ns.pos, err |-> "none",
                                         val |-> [secs |-> s.bytes, nanos |-> ns.bytes],
                                         dt |-> dt]
                                   : dt \in {from_timestamp_opt(as_i64(s.bytes), ns.bytes)} })
                       : ns \in {ReadExact(s.pos, lims, 4)} })
           : s \in {ReadExact(pos, lims, 8)} })

\* AdvancedReader::read_timespec of btrfs/utils.rs.  val is the pair read, the
\* form the TLV slots and the file entries keep a timestamp in; dt is the
\* NaiveDateTime from_timestamp_opt made of it
read_timespec(pos, lims) ==
    Only({ IF ~s.ok THEN [ok |-> FALSE, pos |-> s.pos, err |-> s.err, val |-> <<>>, dt |-> None]
           ELSE Only({ IF ~ns.ok
                       THEN [ok |-> FALSE, pos |-> ns.pos, err |-> ns.err, val |-> <<>>, dt |-> None]
                       ELSE IF ~TimestampValid(s.bytes, ns.bytes)
                       THEN [ok |-> FALSE, pos |-> ns.pos, err |-> "InvalidData", val |-> <<>>,
                             dt |-> None]
                       ELSE [ok |-> TRUE, pos |-> ns.pos, err |-> "none",
                             val |-> [secs |-> s.bytes, nanos |-> ns.bytes],
                             dt |-> from_timestamp_opt(Unwrap(i64_from_u64(s.bytes)), ns.bytes)]
                       : ns \in {ReadExact(s.pos, lims, 4)} })
           : s \in {ReadExact(pos, lims, 8)} })

\* ReadBytesExt::read_u64 and read_u128: n bytes, little-endian
read_uint(pos, lims, n) ==
    Only({ [ok |-> r.ok, pos |-> r.pos, err |-> r.err, val |-> r.bytes]
           : r \in {ReadExact(pos, lims, n)} })

read_mixed(pos, lims) ==
    Only({ [ok |-> r.ok, pos |-> r.pos, err |-> r.err,
            val |-> IF r.ok THEN from_bytes(r.bytes) ELSE <<>>]
           : r \in {ReadToEnd(pos, lims)} })

----------------------------------------------------------------------------
(* TLV bag *)

\* the slots of struct TLV
TLVs == {"UUID", "Size", "Mode", "Uid", "Gid", "Rdev", "Ctime", "Mtime", "Atime",
         "XattrName", "XattrData", "Path", "PathTo", "PathLink", "ClonePath"}

\* TLV::new: every slot WNone
TLV_new == [n \in TLVs |-> None]

\* TLVs::new: the slot of a type-id, "" for an unrecognized id
TLVs_new(id) ==
    CASE id = 1 -> "UUID"
      [] id = 4 -> "Size"
      [] id = 5 -> "Mode"
      [] id = 6 -> "Uid"
      [] id = 7 -> "Gid"
      [] id = 8 -> "Rdev"
      [] id = 9 -> "Ctime"
      [] id = 10 -> "Mtime"
      [] id = 11 -> "Atime"
      [] id = 13 -> "XattrName"
      [] id = 14 -> "XattrData"
      [] id = 15 -> "Path"
      [] id = 16 -> "PathTo"
      [] id = 17 -> "PathLink"
      [] id = 22 -> "ClonePath"
      [] OTHER -> ""

\* the $convert of a slot, applied to the reader (pos, lims)
Convert(slot, pos, lims) ==
    IF slot = "UUID" THEN read_uint(pos, lims, 16)
    ELSE IF slot \in {"Size", "Mode", "Uid", "Gid", "Rdev"} THEN read_uint(pos, lims, 8)
    ELSE IF slot \in {"Ctime", "Mtime", "Atime"} THEN read_timespec(pos, lims)
    ELSE read_mixed(pos, lims)

\* TLV::add: a recognized id reads its value from the reader and fills the
\* slot; any other id reads nothing and succeeds
TLV_add(res, id, pos, lims) ==
    IF TLVs_new(id) = "" THEN [ok |-> TRUE, pos |-> pos, err |-> "none", res |-> res]
    ELSE Only({ IF ~r.ok THEN [ok |-> FALSE, pos |-> r.pos, err |-> r.err, res |-> res]
                ELSE [ok |-> TRUE, pos |-> r.pos, err |-> "none",
                      res |-> [res EXCEPT ![TLVs_new(id)] = Some(r.val)]]
                : r \in {Convert(TLVs_new(id), pos, lims)} })

\* one turn of the loop of read_tlvs on the reader (pos, lims) with the bag
\* res: break says that the loop ends (by break or by `?`), tlv_err is the
\* error of TLV::add that made it break ("none" otherwise)
read_tlvs_turn(res, pos, lims) ==
    Only({
        IF ~tlv.ok /\ tlv.err = "UnexpectedEof"
        THEN [break |-> TRUE, ok |-> TRUE, pos |-> tlv.pos, err |-> "none", res |-> res,
              tlv_err |-> "none"]
        ELSE IF ~tlv.ok
        THEN [break |-> TRUE, ok |-> FALSE, pos |-> tlv.pos, err |-> tlv.err, res |-> res,
              tlv_err |-> "none"]
        ELSE Only({
            IF ~len.ok
            THEN [break |-> TRUE, ok |-> FALSE, pos |-> len.pos, err |-> len.err, res |-> res,
                  tlv_err |-> "none"]
            ELSE Only({
                IF ~added.ok
                THEN [break |-> TRUE, ok |-> TRUE, pos |-> added.pos, err |-> "none",
                      res |-> res, tlv_err |-> added.err]
                ELSE [break |-> FALSE, ok |-> TRUE, pos |-> added.pos, err |-> "none",
                      res |-> added.res, tlv_err |-> "none"]
                : added \in {TLV_add(res, U16(tlv.bytes), len.pos,
                                     lims \cup {len.pos + U16(len.bytes)})} })
            : len \in {ReadExact(tlv.pos, lims, 2)} })
        : tlv \in {ReadExact(pos, lims, 2)} })

\* Parser::read_tlvs on the reader (pos, lims), from the bag res on
RECURSIVE read_tlvs_from(_, _, _)
read_tlvs_from(res, pos, lims) ==
    Only({ IF t.break
           THEN [ok |-> t.ok, pos |-> t.pos, err |-> t.err, res |-> t.res, tlv_err |-> t.tlv_err]
           ELSE read_tlvs_from(t.res, t.pos, lims)
           : t \in {read_tlvs_turn(res, pos, lims)} })

read_tlvs(pos, lims) == read_tlvs_from(TLV_new, pos, lims)

----------------------------------------------------------------------------
(* TLV access: Result values are [ok, val] *)

\* Command::_tlv_get
_tlv_get(val, def) ==
    IF IsSome(val) THEN [ok |-> TRUE, val |-> Unwrap(val)]
    ELSE IF IsSome(def) THEN [ok |-> TRUE, val |-> Unwrap(def)]
    ELSE [ok |-> FALSE, val |-> <<>>]

tlv_get(val) == _tlv_get(val, None)

\* a tlv_get_def that falls back to the epoch, whatever the default handed in
tlv_get_def_epoch(val, def) == _tlv_get(val, Some([secs |-> Rep(0, 8), nanos |-> Rep(0, 4)]))

tlv_get_def(val, def) == _tlv_get(val, Some(def))

\* a tlv_get_auto without a default
tlv_get_auto_required(val, max) == _tlv_get(val, None)

\* max is T::max_value() of the slot's type
tlv_get_auto(val, max) == _tlv_get(val, Some(max))

----------------------------------------------------------------------------
(* Subvolume state: SubvolumeInfo is [source, overwrite, files], files a    *)
(* function from MixedString keys to Option<FileInfo>.  Results of the     *)
(* operations are [ok, sv] (and val where the operation returns a value).  *)

ZeroU64 == Rep(0, 8)

\* NaiveDateTime::from_timestamp(0, 0)
EpochZero == [secs |-> Rep(0, 8), nanos |-> Rep(0, 4)]

\* Parser::default_dt, 99999-12-31 23:58:59 (3093527980739 s after the epoch)
default_dt == [secs |-> <<195, 234, 162, 68, 208, 2, 0, 0>>, nanos |-> Rep(0, 4)]

\* HashMap::insert
Insert(files, k, v) == [x \in DOMAIN files \cup {k} |-> IF x = k THEN v ELSE files[x]]

\* HashMap::remove
Remove(files, k) == [x \in DOMAIN files \ {k} |-> files[x]]

\* HashMap::new
NoFiles == [x \in {} |-> None]

\* an add_file that leaves a slot that is there
add_file_if_absent(sv, path, filetype, mode) ==
    IF path \in DOMAIN sv.files THEN [ok |-> TRUE, sv |-> sv]
    ELSE [ok |-> TRUE,
          sv |-> [sv EXCEPT !.files = Insert(sv.files, path,
                     Some([filename |-> path, permissions |-> mode,
                           modified |-> EpochZero, accessed |-> EpochZero, created |-> EpochZero,
                           length |-> ZeroU64, user_id |-> ZeroU64, group_id |-> ZeroU64,
                           filetype |-> filetype]))]]

add_file(sv, path, filetype, mode) ==
    [ok |-> TRUE,
     sv |-> [sv EXCEPT !.files = Insert(sv.files, path,
                Some([filename |-> path, permissions |-> mode,
                      modified |-> EpochZero, accessed |-> EpochZero, created |-> EpochZero,
                      length |-> ZeroU64, user_id |-> ZeroU64, group_id |-> ZeroU64,
                      filetype |-> filetype]))]]

\* a del_file that leaves a tombstone whatever the overwrite flag
del_file_keep_key(sv, path) ==
    IF path \notin DOMAIN sv.files THEN [ok |-> FALSE, sv |-> sv]
    ELSE IF ~IsSome(sv.files[path]) THEN [ok |-> FALSE, sv |-> sv]
    ELSE [ok |-> TRUE, sv |-> [sv EXCEPT !.files = Insert(sv.files, path, None)]]

\* a del_file that succeeds on a tombstone
del_file_twice(sv, path) ==
    IF path \notin DOMAIN sv.files THEN [ok |-> FALSE, sv |-> sv]
    ELSE IF sv.overwrite THEN [ok |-> TRUE, sv |-> [sv EXCEPT !.files = Remove(sv.files, path)]]
    ELSE [ok |-> TRUE, sv |-> [sv EXCEPT !.files = Insert(sv.files, path, None)]]

del_file(sv, path) ==
    IF path \notin DOMAIN sv.files THEN [ok |-> FALSE, sv |-> sv]
    ELSE IF ~IsSome(sv.files[path]) THEN [ok |-> FALSE, sv |-> sv]
    ELSE IF sv.overwrite THEN [ok |-> TRUE, sv |-> [sv EXCEPT !.files = Remove(sv.files, path)]]
    ELSE [ok |-> TRUE, sv |-> [sv EXCEPT !.files = Insert(sv.files, path, None)]]

\* every branch returns without touching the subvolume ("TODO: Not implemented")
load_file(sv, path) ==
    IF sv.overwrite THEN sv
    ELSE IF path \in DOMAIN sv.files THEN sv
    ELSE sv

\* SubvolumeExt::load_file of src/parser.rs, the parser that main.rs builds:
\* the same two returns, and unimplemented!() where the other has its TODO
SubvolumeExt_load_file(sv, path) ==
    IF sv.overwrite THEN "return"
    ELSE IF path \in DOMAIN sv.files THEN "return"
    ELSE "unimplemented"

get_file(sv, path) ==
    LET s == load_file(sv, path)
    IN  IF path \in DOMAIN s.files
        THEN [ok |-> TRUE, sv |-> s, val |-> s.files[path]]
        ELSE [ok |-> FALSE, sv |-> s, val |-> None]

\* a pop_file that returns the slot and leaves it in the map
pop_file_keep(sv, path) ==
    LET s == load_file(sv, path)
    IN  IF path \in DOMAIN s.files
        THEN [ok |-> TRUE, sv |-> s, val |-> s.files[path]]
        ELSE [ok |-> FALSE, sv |-> s, val |-> None]

pop_file(sv, path) ==
    LET s == load_file(sv, path)
    IN  IF path \in DOMAIN s.files
        THEN [ok |-> TRUE, sv |-> [s EXCEPT !.files = Remove(s.files, path)], val |-> s.files[path]]
        ELSE [ok |-> FALSE, sv |-> s, val |-> None]

\* a copy_file that marks the destination as deleted
copy_file_tombstone(sv, from, to) ==
    LET g == get_file(load_file(sv, from), from)
    IN  IF ~g.ok THEN [ok |-> FALSE, sv |-> g.sv]
        ELSE [ok |-> TRUE, sv |-> [g.sv EXCEPT !.files = Insert(g.sv.files, to, None)]]

copy_file(sv, from, to) ==
    LET g == get_file(load_file(sv, from), from)
        entry == IF IsSome(g.val) THEN Some([Unwrap(g.val) EXCEPT !.filename = to]) ELSE g.val
    IN  IF ~g.ok THEN [ok |-> FALSE, sv |-> g.sv]
        ELSE [ok |-> TRUE, sv |-> [g.sv EXCEPT !.files = Insert(g.sv.files, to, entry)]]

\* a modify that succeeds on a tombstone
modify_lenient(sv, path, f) ==
    LET s == load_file(sv, path)
        info == Unwrap(s.files[path])
    IN  IF path \notin DOMAIN s.files THEN [ok |-> FALSE, sv |-> s]
        ELSE IF ~IsSome(s.files[path]) THEN [ok |-> TRUE, sv |-> s]
        ELSE [ok |-> TRUE,
              sv |-> [s EXCEPT !.files = Insert(s.files, path,
                        Some([k \in DOMAIN info |-> IF k \in DOMAIN f THEN f[k] ELSE info[k]]))]]

\* the mutator f is the record of the fields the closure assigns
modify(sv, path, f) ==
    LET s == load_file(sv, path)
        info == Unwrap(s.files[path])
    IN  IF path \notin DOMAIN s.files THEN [ok |-> FALSE, sv |-> s]
        ELSE IF ~IsSome(s.files[path]) THEN [ok |-> FALSE, sv |-> s]
        ELSE [ok |-> TRUE,
              sv |-> [s EXCEPT !.files = Insert(s.files, path,
                        Some([k \in DOMAIN info |-> IF k \in DOMAIN f THEN f[k] ELSE info[k]]))]]

----------------------------------------------------------------------------
(* Command interpreter *)

\* Command::new
Command_new(id) ==
    CASE id = 1 -> "Subvolume"
      [] id = 2 -> "Snapshot"
      [] id = 3 -> "MkFile"
      [] id = 4 -> "MkDir"
      [] id = 5 -> "MkNod"
      [] id = 6 -> "MkFIFO"
      [] id = 7 -> "MkSock"
      [] id = 8 -> "Symlink"
      [] id = 9 -> "Rename"
      [] id = 10 -> "Link"
      [] id = 11 -> "Unlink"
      [] id = 12 -> "Rmdir"
      [] id = 13 -> "SetXattr"
      [] id = 14 -> "RemoveXattr"
      [] id = 16 -> "Clone"
      [] id = 18 -> "Chmod"
      [] id = 19 -> "Chown"
      [] id = 20 -> "Utimes"
      [] id = 21 -> "End"
      [] OTHER -> "Unknown"

\* a parser state the commands act on: [cur, result]
Failed(p) == [ok |-> FALSE, cur |-> p.cur, result |-> p.result]

\* an empty arm that asks for the open subvolume first
Done_with_subvol(p) == [ok |-> IsSome(p.cur), cur |-> p.cur, result |-> p.result]

Done(p) == [ok |-> TRUE, cur |-> p.cur, result |-> p.result]

\* the outcome r of an operation on the open subvolume put back into the parser
WithSubvol(p, r) == [ok |-> r.ok, cur |-> Some(r.sv), result |-> p.result]

\* Subvolume and Snapshot arms that start a subvolume over the open one
StartSubvolume_unchecked(p, tlv, overwrite) ==
    [ok |-> TRUE,
     cur |-> Some([source |-> tlv_get_auto(tlv.UUID, MaxU128).val,
                   overwrite |-> overwrite, files |-> NoFiles]),
     result |-> p.result]

\* Subvolume and Snapshot arms that both start an overwrite subvolume
StartSubvolume_always_overwrite(p, tlv, overwrite) ==
    IF IsSome(p.cur) THEN Failed(p)
    ELSE [ok |-> TRUE,
          cur |-> Some([source |-> tlv_get_auto(tlv.UUID, MaxU128).val,
                        overwrite |-> TRUE, files |-> NoFiles]),
          result |-> p.result]

\* the Subvolume and Snapshot arms
StartSubvolume(p, tlv, overwrite) ==
    IF IsSome(p.cur) THEN Failed(p)
    ELSE [ok |-> TRUE,
          cur |-> Some([source |-> tlv_get_auto(tlv.UUID, MaxU128).val,
                        overwrite |-> overwrite, files |-> NoFiles]),
          result |-> p.result]

\* the MkFile, MkDir, MkNod, MkSock, MkFIFO and Symlink arms
\* an add arm that makes every entry a regular file
MakeEntry_regular(p, tlv, required, filetype, mode) ==
    IF \E n \in required : ~tlv_get(tlv[n]).ok THEN Failed(p)
    ELSE IF ~IsSome(p.cur) THEN Failed(p)
    ELSE WithSubvol(p, add_file(Unwrap(p.cur), tlv_get(tlv.Path).val, "File", mode))

MakeEntry(p, tlv, required, filetype, mode) ==
    IF \E n \in required : ~tlv_get(tlv[n]).ok THEN Failed(p)
    ELSE IF ~IsSome(p.cur) THEN Failed(p)
    ELSE WithSubvol(p, add_file(Unwrap(p.cur), tlv_get(tlv.Path).val, filetype, mode))

\* a Rename arm that takes the source out before it looks for PathTo
RenameArm_pop_first(p, tlv) ==
    LET from == tlv_get(tlv.Path)
        to == tlv_get(tlv.PathTo)
        popped == pop_file(load_file(Unwrap(p.cur), from.val), from.val)
    IN  IF ~from.ok THEN Failed(p)
        ELSE IF ~IsSome(p.cur) THEN Failed(p)
        ELSE IF ~popped.ok \/ ~to.ok THEN WithSubvol(p, [ok |-> FALSE, sv |-> popped.sv])
        ELSE WithSubvol(p, [ok |-> TRUE,
                            sv |-> [popped.sv EXCEPT !.files = Insert(popped.sv.files, to.val, popped.val)]])

RenameArm(p, tlv) ==
    LET from == tlv_get(tlv.Path)
        to == tlv_get(tlv.PathTo)
        popped == pop_file(load_file(Unwrap(p.cur), from.val), from.val)
    IN  IF ~from.ok \/ ~to.ok THEN Failed(p)
        ELSE IF ~IsSome(p.cur) THEN Failed(p)
        ELSE IF ~popped.ok THEN WithSubvol(p, popped)
        ELSE WithSubvol(p, [ok |-> TRUE,
                            sv |-> [popped.sv EXCEPT !.files = Insert(popped.sv.files, to.val, popped.val)]])

\* the Link and Clone arms
\* a Link and Clone arm that puts an empty slot at the destination before it
\* looks for the source
CopyArm_reserve(p, tlv, target) ==
    LET from == tlv_get(tlv.Path)
        to == tlv_get(tlv[target])
        sv == [Unwrap(p.cur) EXCEPT !.files = Insert(@, to.val, None)]
    IN  IF ~IsSome(p.cur) THEN Failed(p)
        ELSE IF ~from.ok \/ ~to.ok THEN Failed(p)
        ELSE WithSubvol(p, copy_file(sv, from.val, to.val))

CopyArm(p, tlv, target) ==
    LET from == tlv_get(tlv.Path)
        to == tlv_get(tlv[target])
    IN  IF ~IsSome(p.cur) THEN Failed(p)
        ELSE IF ~from.ok \/ ~to.ok THEN Failed(p)
        ELSE WithSubvol(p, copy_file(Unwrap(p.cur), from.val, to.val))

\* an Unlink and Rmdir arm that deletes with del_file
UnlinkArm_del_file(p, tlv) ==
    LET path == tlv_get(tlv.Path)
    IN  IF ~path.ok THEN Failed(p)
        ELSE IF ~IsSome(p.cur) THEN Failed(p)
        ELSE WithSubvol(p, del_file(Unwrap(p.cur), path.val))

\* the Unlink and Rmdir arm
UnlinkArm(p, tlv) ==
    LET path == tlv_get(tlv.Path)
        sv == load_file(Unwrap(p.cur), path.val)
    IN  IF ~path.ok THEN Failed(p)
        ELSE IF ~IsSome(p.cur) THEN Failed(p)
        ELSE IF path.val \notin DOMAIN sv.files THEN WithSubvol(p, [ok |-> FALSE, sv |-> sv])
        ELSE WithSubvol(p, [ok |-> TRUE, sv |-> [sv EXCEPT !.files = Remove(sv.files, path.val)]])

\* the Chmod, Chown and Utimes arms: f is the closure handed to modify
ModifyArm(p, tlv, f) ==
    LET path == tlv_get(tlv.Path)
    IN  IF ~path.ok THEN Failed(p)
        ELSE IF ~IsSome(p.cur) THEN Failed(p)
        ELSE WithSubvol(p, modify(Unwrap(p.cur), path.val, f))

\* an End arm that keeps the latest snapshot only
EndArm_replace(p) ==
    IF ~IsSome(p.cur) THEN [ok |-> FALSE, cur |-> None, result |-> p.result]
    ELSE [ok |-> TRUE, cur |-> None, result |-> <<Unwrap(p.cur)>>]

\* an End arm that puts the snapshot in front of the earlier ones
EndArm_prepend(p) ==
    IF ~IsSome(p.cur) THEN [ok |-> FALSE, cur |-> None, result |-> p.result]
    ELSE [ok |-> TRUE, cur |-> None, result |-> <<Unwrap(p.cur)>> \o p.result]

\* an End arm that succeeds without an open subvolume
EndArm_lenient(p) ==
    IF ~IsSome(p.cur) THEN [ok |-> TRUE, cur |-> None, result |-> p.result]
    ELSE [ok |-> TRUE, cur |-> None, result |-> Append(p.result, Unwrap(p.cur))]

\* an End arm that leaves the subvolume open
EndArm_keep_open(p) ==
    IF ~IsSome(p.cur) THEN [ok |-> FALSE, cur |-> None, result |-> p.result]
    ELSE [ok |-> TRUE, cur |-> p.cur, result |-> Append(p.result, Unwrap(p.cur))]

EndArm(p) ==
    IF ~IsSome(p.cur) THEN [ok |-> FALSE, cur |-> None, result |-> p.result]
    ELSE [ok |-> TRUE, cur |-> None, result |-> Append(p.result, Unwrap(p.cur))]

\* the arm of cmd in src/parser.rs reaches unimplemented!(): its Rename,
\* Unlink and Rmdir arms and the copy_file of its Link and Clone arms call
\* load_file once their TLVs and the open subvolume are there
Unimplemented(cmd, tlv, cur) ==
    /\ \/ cmd = "Rename" /\ IsSome(tlv.Path) /\ IsSome(tlv.PathTo)
       \/ cmd \in {"Unlink", "Rmdir"} /\ IsSome(tlv.Path)
       \/ cmd = "Link" /\ IsSome(tlv.Path) /\ IsSome(tlv.PathLink)
       \/ cmd = "Clone" /\ IsSome(tlv.Path) /\ IsSome(tlv.ClonePath)
    /\ IsSome(cur)
    /\ SubvolumeExt_load_file(Unwrap(cur), Unwrap(tlv.Path)) = "unimplemented"

\* the match of read_command
Execute(cmd, tlv, p) ==
    CASE cmd = "Unknown" -> Done(p)
      [] cmd = "Subvolume" -> StartSubvolume(p, tlv, TRUE)
      [] cmd = "Snapshot" -> StartSubvolume(p, tlv, FALSE)
      [] cmd \in {"MkFile", "MkDir"} -> MakeEntry(p, tlv, {"Path"}, "Directory", ZeroU64)
      [] cmd \in {"MkNod", "MkSock", "MkFIFO"} ->
            MakeEntry(p, tlv, {"Path"}, "Directory", tlv_get_auto(tlv.Mode, MaxU64).val)
      [] cmd = "Symlink" -> MakeEntry(p, tlv, {"Path", "PathLink"}, "Symlink", ZeroU64)
      [] cmd = "Rename" -> RenameArm(p, tlv)
      [] cmd = "Link" -> CopyArm(p, tlv, "PathLink")
      [] cmd \in {"Unlink", "Rmdir"} -> UnlinkArm(p, tlv)
      [] cmd \in {"SetXattr", "RemoveXattr"} -> Done(p)
      [] cmd = "Clone" -> CopyArm(p, tlv, "ClonePath")
      [] cmd = "Chmod" ->
            ModifyArm(p, tlv, [permissions |-> tlv_get_auto(tlv.Mode, MaxU64).val])
      [] cmd = "Chown" ->
            ModifyArm(p, tlv, [user_id |-> tlv_get_auto(tlv.Uid, MaxU64).val,
                               group_id |-> tlv_get_auto(tlv.Gid, MaxU64).val])
      [] cmd = "Utimes" ->
            ModifyArm(p, tlv, [accessed |-> tlv_get_def(tlv.Atime, default_dt).val,
                               created |-> tlv_get_def(tlv.Ctime, default_dt).val,
                               modified |-> tlv_get_def(tlv.Mtime, default_dt).val])
      [] cmd = "End" -> EndArm(p)

\* a try_read that hands on every error
try_read_raise(r) == [ok |-> r.ok, none |-> FALSE, pos |-> r.pos, bytes |-> r.bytes, err |-> r.err]

\* a try_read that takes the end of the stream for a size of 0
try_read_zero(r) ==
    IF ~r.ok /\ r.err = "UnexpectedEof"
    THEN [ok |-> TRUE, none |-> FALSE, pos |-> r.pos, bytes |-> Rep(0, 4), err |-> "none"]
    ELSE [ok |-> r.ok, none |-> FALSE, pos |-> r.pos, bytes |-> r.bytes, err |-> r.err]

\* try_read on the outcome r of a read: Ok(None) for UnexpectedEof, the
\* error for any other error, Ok(Some(val)) otherwise
try_read(r) ==
    IF ~r.ok /\ r.err = "UnexpectedEof"
    THEN [ok |-> TRUE, none |-> TRUE, pos |-> r.pos, bytes |-> r.bytes, err |-> "none"]
    ELSE [ok |-> r.ok, none |-> FALSE, pos |-> r.pos, bytes |-> r.bytes, err |-> r.err]

\* Parser::read_command at offset pos with the parser state p = [cur, result, command_no]:
\* res is "Ok(true)", "Ok(false)" or "Err"; cmd is the command whose match arm ran
read_command(pos, p) ==
    LET same(res, err, at, sz) ==
            [res |-> res, err |-> err, pos |-> at, cur |-> p.cur, result |-> p.result,
             command_no |-> p.command_no, cmd |-> "", size |-> sz,
             tlv |-> TLV_new, tlv_err |-> "none"]
    IN  Only({
        IF ~size.ok THEN same("Err", size.err, size.pos, None)
        ELSE IF size.none THEN same("Ok(false)", "none", size.pos, None)
        ELSE Only({
            IF ~cmd_id.ok THEN same("Err", cmd_id.err, cmd_id.pos, Some(U32(size.bytes)))
            ELSE Only({
                IF ~checksum.ok
                THEN same("Err", checksum.err, checksum.pos, Some(U32(size.bytes)))
                ELSE Only({
                    IF ~tlvs.ok THEN same("Err", tlvs.err, tlvs.pos, Some(U32(size.bytes)))
                    ELSE Only({
                        [res |-> IF x.ok THEN "Ok(true)" ELSE "Err",
                         err |-> IF x.ok THEN "none" ELSE "InvalidData",
                         pos |-> tlvs.pos, cur |-> x.cur, result |-> x.result,
                         command_no |-> p.command_no + 1,
                         cmd |-> Command_new(U16(cmd_id.bytes)),
                         size |-> Some(U32(size.bytes)),
                         tlv |-> tlvs.res, tlv_err |-> tlvs.tlv_err]
                        : x \in {Execute(Command_new(U16(cmd_id.bytes)), tlvs.res, p)} })
                    : tlvs \in {read_tlvs(checksum.pos, {checksum.pos + U32(size.bytes)})} })
                : checksum \in {ReadExact(cmd_id.pos, {}, 4)} })
            : cmd_id \in {ReadExact(size.pos, {}, 2)} })
        : size \in {try_read(ReadExact(pos, {}, 4))} })

----------------------------------------------------------------------------
(* The streams the parser is run on: a header, then frames drawn from a    *)
(* pool, the whole possibly cut short or served by a source that fails.    *)

MaxFrames == 3

MaxCutFrames == 2

MaxCut == 12

MaxCoreFrames == 4

MaxFailFrames == 1

LE16(n) == <<n % 256, n \div 256>>

LE32(n) == LE16(n) \o <<0, 0>>

Tlv(type, payload) == LE16(type) \o LE16(Len(payload)) \o payload

Checksum == <<222, 173, 190, 239>>

Frame(opcode, body) == LE32(Len(body)) \o LE16(opcode) \o Checksum \o body

Header == CORRECT_MAGIC \o VERSION_ONE

PathA == <<97>>

PathB == <<98>>

Uuid1 == [i \in 1..16 |-> i - 1]

Uuid2 == [i \in 1..16 |-> 32 - i]

Mode755 == <<237, 1, 0, 0, 0, 0, 0, 0>>

FramePool ==
    { Frame(1, Tlv(1, Uuid1)),                                  \* Subvolume
      Frame(2, Tlv(1, Uuid2)),                                  \* Snapshot
      Frame(4, Tlv(15, PathA)),                                 \* MkDir a
      Frame(11, Tlv(15, PathA)),                                \* Unlink a
      Frame(9, Tlv(15, PathA) \o Tlv(16, PathB)),               \* Rename a -> b
      Frame(18, Tlv(15, PathA) \o Tlv(5, Mode755)),             \* Chmod a
      Frame(21, <<>>),                                          \* End
      Frame(13, <<>>),                                          \* SetXattr
      Frame(4, Tlv(99, <<0, 0>>) \o Tlv(15, PathB)),            \* MkDir b after an unknown TLV
      Frame(18, Tlv(15, PathA) \o Tlv(7, <<0, 0>>) \o Tlv(5, Mode755)),  \* Chmod a, Gid of length 2
      Frame(18, Tlv(15, PathA) \o Tlv(5, Mode755 \o <<0, 0, 0, 0>>)),    \* Chmod a, Mode of length 12
      Frame(4, <<>>),                                           \* MkDir without Path
      Frame(21, Tlv(15, PathA)) }                               \* End with a Path

RECURSIVE Concat(_)
Concat(frames) == IF Len(frames) = 0 THEN <<>> ELSE Head(frames) \o Concat(Tail(frames))

\* the frames of the subvolume life cycle alone
CorePool ==
    { Frame(1, Tlv(1, Uuid1)), Frame(2, Tlv(1, Uuid2)), Frame(4, Tlv(15, PathA)),
      Frame(11, Tlv(15, PathA)), Frame(21, <<>>) }

\* header and up to n frames of the pool
Streams(pool, n) == {Header \o Concat(fs) : fs \in UNION {[1..k -> pool] : k \in 0..n}}

\* streams whose header is not the accepted one
BadHeaderStreams ==
    {h \o f : h \in { [Header EXCEPT ![1] = 66], [Header EXCEPT ![13] = 1],
                       [Header EXCEPT ![14] = 2], [Header EXCEPT ![17] = 1],
                       SubSeq(Header, 1, 5), SubSeq(Header, 1, 13), SubSeq(Header, 1, 15) },
              f \in {<<>>, Frame(1, Tlv(1, Uuid1)) \o Frame(21, <<>>)}}

\* a stream with its last k bytes missing
CutStreams == {SubSeq(s, 1, Len(s) - k) : s \in Streams(FramePool, MaxCutFrames), k \in 1..MaxCut}

\* neither read_header nor read_command was called
NoCall ==
    [call |-> "none", res |-> "none", err |-> "none", start |-> 0,
     cmd |-> "", size |-> None, tlv |-> TLV_new, tlv_err |-> "none",
     prev_cur |-> None, prev_result |-> <<>>]

\* parse was not called before
NoFirst == [kind |-> "none", ret |-> "none", err |-> "none", result |-> <<>>]

\* read_timespec was not called
Unread == [stage |-> "input", by |-> "none", out |-> <<>>]

\* a byte string that from_bytes was not applied to yet
Unparsed(input) ==
    [stage |-> "input", input |-> input, segs |-> <<>>, reversed |-> FALSE, bytes |-> <<>>]

Start(d, f, b) ==
    /\ data = d
    /\ fail = f
    /\ bypass_errors = b
    /\ pc = "start"
    /\ offset = 0
    /\ current_subvol = None
    /\ result = <<>>
    /\ command_no = 0
    /\ ret = "none"
    /\ last = NoCall
    /\ ended = <<>>
    /\ iteration = 0
    /\ first = NoFirst

\* a subvolume as the Subvolume (overwrite) and Snapshot arms create it
NewSubvolume(uuid, overwrite) == [source |-> uuid, overwrite |-> overwrite, files |-> NoFiles]

\* no operation was applied to subvol, and from_bytes not yet to input
FreshOn(overwrite, input) ==
    /\ subvol = NewSubvolume(Uuid1, overwrite)
    /\ trail = <<>>
    /\ live = [paths |-> {}, only_add_del |-> TRUE]
    /\ nops = 0
    /\ mixed = Unparsed(input)
    /\ timespec = Unread

Fresh(overwrite) == FreshOn(overwrite, <<>>)

\* the source ends with EOF (complete or cut short) and the settings are the
\* default ones; or bypass_errors is set; or the source fails from some byte on
Init ==
    /\ \/ \E d \in Streams(FramePool, MaxFrames) \cup Streams(CorePool, MaxCoreFrames)
                   \cup BadHeaderStreams \cup CutStreams : Start(d, {}, FALSE)
       \/ \E d \in Streams(FramePool, MaxCutFrames) : Start(d, {}, TRUE)
       \/ \E d \in Streams(FramePool, MaxCutFrames), k \in 0..MaxCut :
              Start(d, {Len(d) - k}, FALSE)
    /\ Fresh(TRUE)

\* parse(): OffsetedReader::new and read_header
ParseStart ==
    /\ pc = "start"
    /\ \E h \in {read_header} :
           /\ offset' = h.pos
           /\ pc' = IF h.ok THEN "loop" ELSE "done"
           /\ ret' = IF h.ok THEN "none" ELSE "Err"
           /\ last' = [call |-> "read_header", res |-> IF h.ok THEN "Ok" ELSE "Err",
                       err |-> h.err, start |-> 0,
                       cmd |-> "", size |-> None, tlv |-> TLV_new, tlv_err |-> "none",
                       prev_cur |-> current_subvol, prev_result |-> result]
    /\ UNCHANGED <<data, fail, bypass_errors, current_subvol, result, command_no, ended,
                   iteration, subvol, trail, live, nops, first, mixed, timespec>>

\* a return that hands out the open subvolume with the finalized ones
parse_return_flush(r) == r.result \o r.cur

\* parse(): Ok(self.result), once read_command r has said Ok(false)
parse_return(r) == r.result

\* an Err arm that returns the error unless bypass_errors is set
on_error_abort(bypass, r) == IF bypass THEN "continue" ELSE "return"

\* parse(): the Err arm of the match on what read_command returned: it logs
\* the error and falls through to the next iteration, whatever the settings
on_error(bypass, r) == "continue"

\* parse(): one iteration of the loop, and the return when read_command says Ok(false)
LoopStep ==
    /\ pc = "loop"
    /\ \E r \in {read_command(offset, [cur |-> current_subvol, result |-> result,
                                      command_no |-> command_no])} :
           /\ offset' = r.pos
           /\ current_subvol' = r.cur
           /\ result' = IF r.res = "Ok(false)" THEN parse_return(r) ELSE r.result
           /\ command_no' = r.command_no
           /\ pc' = IF r.res = "Ok(false)" THEN "done"
                    ELSE IF r.res = "Err" /\ on_error(bypass_errors, r) = "return" THEN "done"
                    ELSE "loop"
           /\ ret' = IF r.res = "Ok(false)" THEN "Ok"
                     ELSE IF r.res = "Err" /\ on_error(bypass_errors, r) = "return" THEN "Err"
                     ELSE "none"
           /\ last' = [call |-> "read_command", res |-> r.res, err |-> r.err, start |-> offset,
                       cmd |-> r.cmd, size |-> r.size, tlv |-> r.tlv, tlv_err |-> r.tlv_err,
                       prev_cur |-> current_subvol, prev_result |-> result]
           /\ ended' = IF r.cmd = "End" /\ r.res = "Ok(true)"
                       THEN ended \o current_subvol ELSE ended
    /\ iteration' = 1 - iteration
    /\ UNCHANGED <<data, fail, bypass_errors, subvol, trail, live, nops, first, mixed, timespec>>

Next == ParseStart \/ LoopStep

Spec == Init /\ [][Next]_vars

\* a source that fails from some byte on, under a stream of at most
\* MaxFailFrames frames
InitFailing ==
    /\ \E d \in Streams(FramePool, MaxFailFrames), k \in 0..MaxCut :
           Start(d, {Len(d) - k}, FALSE)
    /\ Fresh(TRUE)

\* parse() is a sequential loop: it keeps running as long as it has not returned
FairSpec == InitFailing /\ [][Next]_vars /\ WF_vars(Next)

\* the source ends with EOF: a stream of frames, well-formed ones and ones
\* whose TLVs read_tlvs or the match arm rejects, whole or with its last
\* bytes missing; or a stream whose header read_header rejects
MaxEofFrames == 2

EofPool ==
    { Frame(1, Tlv(1, Uuid1)),                                  \* Subvolume
      Frame(4, Tlv(15, PathA)),                                 \* MkDir a
      Frame(21, <<>>),                                          \* End
      Frame(13, <<>>),                                          \* SetXattr
      Frame(4, Tlv(99, <<0, 0>>) \o Tlv(15, PathB)),            \* MkDir b after an unknown TLV
      Frame(18, Tlv(15, PathA) \o Tlv(7, <<0, 0>>) \o Tlv(5, Mode755)),  \* Chmod a, Gid of length 2
      Frame(18, Tlv(15, PathA) \o Tlv(5, Mode755 \o <<0, 0, 0, 0>>)),    \* Chmod a, Mode of length 12
      Frame(4, <<>>) }                                          \* MkDir without Path

InitEof ==
    /\ \E d \in {SubSeq(e, 1, Len(e) - k) : e \in Streams(EofPool, MaxEofFrames), k \in 0..MaxCut}
                 \cup BadHeaderStreams : Start(d, {}, FALSE)
    /\ Fresh(TRUE)

FairEofSpec == InitEof /\ [][Next]_vars /\ WF_vars(Next)

----------------------------------------------------------------------------
(* Streams that hold several subvolumes one after the other, each with     *)
(* commands on the same path.                                              *)

MaxSnapFrames == 6

SnapPool ==
    { Frame(1, Tlv(1, Uuid1)),                                  \* Subvolume
      Frame(4, Tlv(15, PathA)),                                 \* MkDir a
      Frame(18, Tlv(15, PathA) \o Tlv(5, Mode755)),             \* Chmod a
      Frame(21, <<>>) }                                         \* End

InitSnapshots ==
    /\ \E d \in Streams(SnapPool, MaxSnapFrames) : Start(d, {}, FALSE)
    /\ Fresh(TRUE)

SnapshotSpec == InitSnapshots /\ [][Next]_vars

----------------------------------------------------------------------------
(* The file commands and del_file on one subvolume: the match arms of      *)
(* read_command applied, in any order and to any of three paths, to a      *)
(* subvolume that starts empty, with or without overwrite.                 *)

MaxOps == 3

PathC == <<99>>

OpPaths == {from_bytes(PathA), from_bytes(PathB), from_bytes(PathC)}

AddCommands == {"MkFile", "MkDir", "MkNod", "MkSock", "MkFIFO", "Symlink"}

DeleteCommands == {"Unlink", "Rmdir"}

CopyCommands == {"Link", "Clone"}

ModifyCommands == {"Chmod", "Chown", "Utimes"}

\* the TLVs of a file command on path (and to, for the commands with two
\* paths), with Mode 0o755 and no owner and no times
Bag(path, to) ==
    [TLV_new EXCEPT !.Path = Some(path), !.PathTo = Some(to), !.PathLink = Some(to),
                    !.ClonePath = Some(to), !.Mode = Some(Mode755)]

\* the history of the paths whose latest successful operation was an add
Track(cmd, path, ok) ==
    IF ~ok \/ cmd \in ModifyCommands THEN live
    ELSE IF cmd \in AddCommands THEN [live EXCEPT !.paths = @ \cup {path}]
    ELSE IF cmd \in DeleteCommands \cup {"del_file"} THEN [live EXCEPT !.paths = @ \ {path}]
    ELSE [live EXCEPT !.only_add_del = FALSE]

Applied(cmd, path, to, ok, sv) ==
    /\ subvol' = sv
    /\ trail' = <<[cmd |-> cmd, path |-> path, to |-> to, ok |-> ok, before |-> subvol]>>
                 \o (IF Len(trail) > 0 /\ trail[1].cmd = "Rename" /\ trail[1].ok
                     THEN <<trail[1]>> ELSE <<>>)
    /\ live' = Track(cmd, path, ok)
    /\ nops' = nops + 1
    /\ UNCHANGED <<data, fail, bypass_errors, pc, offset, current_subvol, result,
                   command_no, ret, last, ended, iteration, first, mixed, timespec>>

\* one file command of the stream, executed by the match of read_command
\* with subvol as the open subvolume
OpCommand ==
    /\ nops < MaxOps
    /\ \E cmd \in AddCommands \cup DeleteCommands \cup CopyCommands \cup ModifyCommands
                  \cup {"Rename"},
          path \in OpPaths :
          \E to \in IF cmd \in CopyCommands \cup {"Rename"} THEN OpPaths ELSE {path} :
              \E x \in {Execute(cmd, Bag(path, to), [cur |-> Some(subvol), result |-> <<>>])} :
                  Applied(cmd, path, to, x.ok, Unwrap(x.cur))

\* SubvolumeInfo::del_file, which no command of the stream calls
OpDelFile ==
    /\ nops < MaxOps
    /\ \E path \in OpPaths :
          \E x \in {del_file(subvol, path)} : Applied("del_file", path, path, x.ok, x.sv)

OpsInit ==
    /\ Start(Header, {}, FALSE)
    /\ \E overwrite \in BOOLEAN : Fresh(overwrite)

OpsNext == OpCommand \/ OpDelFile

OpsSpec == OpsInit /\ [][OpsNext]_vars

----------------------------------------------------------------------------
(* The match of read_command on any decoded frame: after the header, each  *)
(* step is one read_command call whose frame decoded to a command and a    *)
(* bag of TLVs, any of the TLVs the command reads being present or absent. *)
(* The bytes of the frames are left out: the reader stays where it is.     *)

MaxCmds == 3

CmdPaths == {from_bytes(PathA), from_bytes(PathB)}

Uid1000 == <<232, 3, 0, 0, 0, 0, 0, 0>>

Gid100 == <<100, 0, 0, 0, 0, 0, 0, 0>>

\* three timestamps read_timespec accepts
Time1 == [secs |-> <<1, 0, 0, 0, 0, 0, 0, 0>>, nanos |-> Rep(0, 4)]

Time2 == [secs |-> <<2, 0, 0, 0, 0, 0, 0, 0>>, nanos |-> Rep(0, 4)]

Time3 == [secs |-> <<3, 0, 0, 0, 0, 0, 0, 0>>, nanos |-> <<7, 0, 0, 0>>]

Commands ==
    {"Unknown", "Subvolume", "Snapshot", "MkFile", "MkDir", "MkNod", "MkFIFO", "MkSock",
     "Symlink", "Rename", "Link", "Unlink", "Rmdir", "SetXattr", "RemoveXattr", "Clone",
     "Chmod", "Chown", "Utimes", "End"}

\* the slots the match arm of a command reads
SlotsRead(cmd) ==
    CASE cmd \in {"Subvolume", "Snapshot"} -> {"UUID"}
      [] cmd \in {"MkFile", "MkDir", "Unlink", "Rmdir"} -> {"Path"}
      [] cmd \in {"MkNod", "MkSock", "MkFIFO"} -> {"Path", "Mode"}
      [] cmd \in {"Symlink", "Link"} -> {"Path", "PathLink"}
      [] cmd = "Rename" -> {"Path", "PathTo"}
      [] cmd = "Clone" -> {"Path", "ClonePath"}
      [] cmd = "Chmod" -> {"Path", "Mode"}
      [] cmd = "Chown" -> {"Path", "Uid", "Gid"}
      [] cmd = "Utimes" -> {"Path", "Atime", "Ctime", "Mtime"}
      [] OTHER -> {}

\* the bags read_tlvs can hand to the arm of cmd: each slot the arm reads is
\* absent or holds a value its decoder returns
Bags(cmd) ==
    { [slot \in TLVs |->
          IF slot \notin present THEN None
          ELSE CASE slot = "Path" -> Some(path)
                 [] slot \in {"PathTo", "PathLink", "ClonePath"} -> Some(to)
                 [] slot = "UUID" -> Some(Uuid1)
                 [] slot = "Mode" -> Some(Mode755)
                 [] slot = "Uid" -> Some(Uid1000)
                 [] slot = "Gid" -> Some(Gid100)
                 [] slot = "Atime" -> Some(Time1)
                 [] slot = "Ctime" -> Some(Time2)
                 [] slot = "Mtime" -> Some(Time3)]
      : present \in SUBSET SlotsRead(cmd), path \in CmdPaths, to \in CmdPaths }

\* read_command from `self.command_no += 1` on, for a frame that decoded to
\* cmd and tlv
CmdStep ==
    /\ pc = "loop"
    /\ command_no < MaxCmds
    /\ \E cmd \in Commands :
          \E tlv \in Bags(cmd) :
              \E x \in {Execute(cmd, tlv, [cur |-> current_subvol, result |-> result])} :
                  /\ current_subvol' = x.cur
                  /\ result' = x.result
                  /\ last' = [call |-> "read_command",
                              res |-> IF x.ok THEN "Ok(true)" ELSE "Err",
                              err |-> IF x.ok THEN "none" ELSE "InvalidData",
                              start |-> offset, cmd |-> cmd, size |-> None,
                              tlv |-> tlv, tlv_err |-> "none",
                              prev_cur |-> current_subvol, prev_result |-> result]
                  /\ ended' = IF cmd = "End" /\ x.ok THEN ended \o current_subvol ELSE ended
    /\ command_no' = command_no + 1
    /\ iteration' = 1 - iteration
    /\ UNCHANGED <<data, fail, bypass_errors, pc, offset, ret, subvol, trail, live, nops,
                   first, mixed, timespec>>

CmdInit ==
    /\ Start(Header, {}, FALSE)
    /\ Fresh(TRUE)

CmdNext == ParseStart \/ CmdStep

CmdSpec == CmdInit /\ [][CmdNext]_vars

----------------------------------------------------------------------------
(* parse called twice: once a parser has returned, a new parser is run with *)
(* the other value of bypass_errors on the same stream, or with the same    *)
(* settings on the stream with the checksum field of one frame changed.     *)

MaxRerunFrames == 4

RerunPool ==
    { Frame(1, Tlv(1, Uuid1)),                                           \* Subvolume
      Frame(18, Tlv(15, PathA) \o Tlv(7, <<0, 0>>) \o Tlv(5, Mode755)),  \* Chmod a, Gid of length 2
      Frame(13, <<>>),                                                   \* SetXattr
      Frame(21, <<>>) }                                                  \* End

AltChecksums == {<<0, 0, 0, 0>>, <<1, 0, 0, 0>>}

\* the offsets of the frames of a stream as the format lays them out: each
\* frame is 10 header bytes and as many body bytes as its size field says
RECURSIVE FrameStartsFrom(_, _)
FrameStartsFrom(d, pos) ==
    IF pos + 10 > Len(d) THEN <<>>
    ELSE <<pos>> \o FrameStartsFrom(d, pos + 10 + U32(SubSeq(d, pos + 1, pos + 4)))

\* the stream is a 17-byte header and whole frames
Framed(d) ==
    /\ Len(d) >= 17
    /\ \E starts \in {FrameStartsFrom(d, 17)} :
           IF Len(starts) = 0 THEN Len(d) = 17
           ELSE \E s \in {starts[Len(starts)]} :
                    s + 10 + U32(SubSeq(d, s + 1, s + 4)) = Len(d)

\* the stream with c as the checksum field of the frame at pos
WithChecksum(d, pos, c) ==
    [i \in 1..Len(d) |-> IF i > pos + 6 /\ i <= pos + 10 THEN c[i - pos - 6] ELSE d[i]]

\* Parser::new(settings).parse(reader) once more, on the stream d with
\* bypass_errors b, after the call before has returned
Restart(kind, d, b) ==
    /\ pc = "done"
    /\ first.kind = "none"
    /\ first' = [kind |-> kind, ret |-> ret, err |-> last.err, result |-> result]
    /\ data' = d
    /\ bypass_errors' = b
    /\ pc' = "start"
    /\ offset' = 0
    /\ current_subvol' = None
    /\ result' = <<>>
    /\ command_no' = 0
    /\ ret' = "none"
    /\ last' = NoCall
    /\ ended' = <<>>
    /\ iteration' = 0
    /\ UNCHANGED <<fail, subvol, trail, live, nops, mixed, timespec>>

RerunOtherSettings == Restart("bypass_errors", data, ~bypass_errors)

RerunOtherChecksum ==
    /\ Framed(data)
    /\ \E starts \in {FrameStartsFrom(data, 17)} :
          \E i \in 1..Len(starts), c \in AltChecksums :
              Restart("checksum", WithChecksum(data, starts[i], c), bypass_errors)

RerunInit ==
    /\ \E d \in Streams(RerunPool, MaxRerunFrames) \cup BadHeaderStreams, b \in BOOLEAN :
           Start(d, {}, b)
    /\ Fresh(TRUE)

RerunNext == ParseStart \/ LoopStep \/ RerunOtherSettings \/ RerunOtherChecksum

RerunSpec == RerunInit /\ [][RerunNext]_vars

----------------------------------------------------------------------------
(* MixedString on its own: from_bytes applied to a byte string, reverse    *)
(* to the MixedString it made or not, then to_bytes.  The bytes stand for  *)
(* the classes from_utf8 tells apart: ASCII, continuation bytes, the leads *)
(* of 2-, 3- and 4-byte sequences, and a byte that no sequence holds; and  *)
(* for the classes graphemes tells apart: LF and CR, the lead 0xCC of the  *)
(* combining marks, and the rest.                                          *)

MaxBytes == 3

MixedAlphabet == {10, 13, 97, 128, 144, 195, 204, 226, 240, 255}

ByteStrings(n) == UNION {[1..k -> MixedAlphabet] : k \in 0..n}

FromBytes ==
    /\ mixed.stage = "input"
    /\ mixed' = [mixed EXCEPT !.stage = "parsed", !.segs = from_bytes(mixed.input)]
    /\ UNCHANGED <<data, fail, bypass_errors, pc, offset, current_subvol, result, command_no,
                   ret, last, ended, iteration, subvol, trail, live, nops, first,
                   timespec>>

Reverse ==
    /\ mixed.stage = "parsed"
    /\ ~mixed.reversed
    /\ mixed' = [mixed EXCEPT !.reversed = TRUE, !.segs = reverse(mixed.segs)]
    /\ UNCHANGED <<data, fail, bypass_errors, pc, offset, current_subvol, result, command_no,
                   ret, last, ended, iteration, subvol, trail, live, nops, first,
                   timespec>>

ToBytes ==
    /\ mixed.stage = "parsed"
    /\ mixed' = [mixed EXCEPT !.stage = "written", !.bytes = to_bytes(mixed.segs)]
    /\ UNCHANGED <<data, fail, bypass_errors, pc, offset, current_subvol, result, command_no,
                   ret, last, ended, iteration, subvol, trail, live, nops, first,
                   timespec>>

MixedInit ==
    /\ Start(Header, {}, FALSE)
    /\ \E input \in ByteStrings(MaxBytes) : FreshOn(TRUE, input)

MixedNext == FromBytes \/ Reverse \/ ToBytes

MixedSpec == MixedInit /\ [][MixedNext]_vars

----------------------------------------------------------------------------
(* read_timespec on its own: a reader over data, which holds a u64 of      *)
(* seconds and a u32 of nanoseconds, little-endian, or the first bytes of  *)
(* them.  The seconds are the values around the limits of the checks:      *)
(* the epoch, the ends of a day, the last second chrono holds and the one  *)
(* after it, i64::MAX, 2^63, the two's complement of the first second      *)
(* chrono holds and of the one before it, and u64::MAX.                    *)

TimespecSeconds ==
    { Rep(0, 8),                                  \* 0
      <<10, 0, 0, 0, 0, 0, 0, 0>>,                \* 10
      <<127, 81, 1, 0, 0, 0, 0, 0>>,              \* 86399
      <<128, 81, 1, 0, 0, 0, 0, 0>>,              \* 86400
      <<210, 18, 105, 46, 0, 0, 0, 0>>,           \* 9012 days and 1234 s
      <<255, 158, 235, 155, 119, 7, 0, 0>>,       \* 262143-12-31 23:59:59
      <<0, 159, 235, 155, 119, 7, 0, 0>>,         \* one second later
      <<255, 255, 255, 255, 255, 255, 255, 127>>, \* i64::MAX
      <<0, 0, 0, 0, 0, 0, 0, 128>>,               \* 2^63
      <<127, 23, 42, 113, 107, 248, 255, 255>>,   \* -(96465659 days) - 1 s
      <<128, 23, 42, 113, 107, 248, 255, 255>>,   \* -262144-01-01 00:00:00
      <<128, 174, 254, 255, 255, 255, 255, 255>>, \* -86400
      <<246, 255, 255, 255, 255, 255, 255, 255>>, \* -10
      Rep(255, 8) }                               \* u64::MAX, -1

TimespecNanos ==
    { Rep(0, 4),
      <<46, 22, 0, 0>>,            \* 5678
      <<255, 201, 154, 59>>,       \* 999_999_999
      <<0, 202, 154, 59>>,         \* 1_000_000_000
      <<255, 147, 53, 119>>,       \* 1_999_999_999
      <<0, 148, 53, 119>>,         \* 2_000_000_000
      <<0, 0, 0, 128>>,            \* 2^31
      Rep(255, 4) }                \* u32::MAX

\* the lengths a timespec cut short is left with
ShortLengths == {0, 7, 8, 11}

Timespecs ==
    {s \o ns : s \in TimespecSeconds, ns \in TimespecNanos}
    \cup {SubSeq(<<10, 0, 0, 0, 0, 0, 0, 0, 46, 22, 0, 0>>, 1, n) : n \in ShortLengths}

ReadTimespec ==
    /\ timespec.stage = "input"
    /\ timespec' = [stage |-> "read", by |-> "btrfs/utils.rs", out |-> read_timespec(0, {})]
    /\ UNCHANGED <<data, fail, bypass_errors, pc, offset, current_subvol, result, command_no,
                   ret, last, ended, iteration, subvol, trail, live, nops, first, mixed>>

MonolithReadTimespec ==
    /\ timespec.stage = "input"
    /\ timespec' = [stage |-> "read", by |-> "parser.rs", out |-> Monolith_read_timespec(0, {})]
    /\ UNCHANGED <<data, fail, bypass_errors, pc, offset, current_subvol, result, command_no,
                   ret, last, ended, iteration, subvol, trail, live, nops, first, mixed>>

TimespecInit ==
    /\ \E d \in Timespecs : Start(d, {}, FALSE)
    /\ Fresh(TRUE)

TimespecNext == ReadTimespec \/ MonolithReadTimespec

TimespecSpec == TimespecInit /\ [][TimespecNext]_vars

TypeOK ==
    /\ pc \in {"start", "loop", "done"}
    /\ ret \in {"none", "Ok", "Err"}
    /\ offset \in 0..Len(data)
    /\ Len(current_subvol) <= 1

----------------------------------------------------------------------------
(* Properties.  The frame of the latest read_command call, as the stream   *)
(* format lays it out: 10 header bytes, then size body bytes holding       *)
(* records of type, length and length payload bytes.                       *)

\* the latest call read a frame whose header and body the source delivers whole
FrameComplete ==
    /\ last.call = "read_command"
    /\ IsSome(last.size)
    /\ last.start + 10 + Unwrap(last.size) <= Stop({})

FrameEnd == last.start + 10 + Unwrap(last.size)

Body == SubSeq(data, last.start + 11, FrameEnd)

\* the records of a body by their declared lengths; a tail that holds no whole
\* record ends the list
RECURSIVE Records(_)
Records(body) ==
    IF Len(body) < 4 \/ Len(body) < 4 + U16(SubSeq(body, 3, 4)) THEN <<>>
    ELSE LET n == U16(SubSeq(body, 3, 4))
         IN  <<[type |-> U16(SubSeq(body, 1, 2)), payload |-> SubSeq(body, 5, 4 + n)]>>
             \o Records(SubSeq(body, 5 + n, Len(body)))

RECURSIVE RecordsLen(_)
RecordsLen(recs) ==
    IF Len(recs) = 0 THEN 0 ELSE 4 + Len(Head(recs).payload) + RecordsLen(Tail(recs))

\* the records tile the body exactly
WellFramed(body) == RecordsLen(Records(body)) = Len(body)

Recognized(rec) == TLVs_new(rec.type) # ""

\* the payload length the decoder of a record's slot expects (0: any length)
ExpectedLen(rec) ==
    LET slot == TLVs_new(rec.type)
    IN  IF slot = "UUID" THEN 16
        ELSE IF slot \in {"Size", "Mode", "Uid", "Gid", "Rdev"} THEN 8
        ELSE IF slot \in {"Ctime", "Mtime", "Atime"} THEN 12
        ELSE 0

RightLength(rec) == ExpectedLen(rec) = 0 \/ Len(rec.payload) = ExpectedLen(rec)

\* the value a record's payload stands for
ValueOf(rec) ==
    IF ExpectedLen(rec) = 0 THEN from_bytes(rec.payload)
    ELSE IF ExpectedLen(rec) = 12
    THEN [secs |-> SubSeq(rec.payload, 1, 8), nanos |-> SubSeq(rec.payload, 9, 12)]
    ELSE rec.payload

ValidValue(rec) ==
    ExpectedLen(rec) = 12 => TimestampValid(SubSeq(rec.payload, 1, 8), SubSeq(rec.payload, 9, 12))

\* the bag the records recs fill: each slot holds the value of its last record
BagOf(recs) ==
    [slot \in TLVs |->
        LET is == {i \in 1..Len(recs) : TLVs_new(recs[i].type) = slot}
        IN  IF is = {} THEN None
            ELSE Some(ValueOf(recs[CHOOSE i \in is : \A j \in is : j <= i]))]

\* C1: when read_command returns from a frame whose 10 header bytes and size
\* body bytes are all in the stream, the outer reader stands at
\* frame_start + 10 + size, also when a TLV error ended the decoding early.
C1_FrameSynchronised == FrameComplete => offset = FrameEnd

\* C2: in a body of well-formed records, an unrecognized record is skipped
\* with its payload consumed, so that every recognized record, also one that
\* follows an unrecognized one, fills its slot with its own value.
C2_UnknownSkipped ==
    LET recs == Records(Body)
    IN  ( /\ FrameComplete
          /\ WellFramed(Body)
          /\ \A i \in 1..Len(recs) : RightLength(recs[i]) /\ ValidValue(recs[i])
          /\ \E i, j \in 1..Len(recs) : i < j /\ ~Recognized(recs[i]) /\ Recognized(recs[j]) )
        => /\ last.cmd # ""
           /\ last.tlv = BagOf(recs)

\* the index of the first record of recs that is recognized and has not the
\* length its decoder expects, 0 when there is none
FirstWrongLength(recs) ==
    LET is == {i \in 1..Len(recs) : Recognized(recs[i]) /\ ~RightLength(recs[i])}
    IN  IF is = {} THEN 0 ELSE CHOOSE i \in is : \A j \in is : i <= j

\* C3: a recognized record of a wrong payload length, shorter or longer, fails
\* alone: read_tlvs returns Ok, the slots of the records before it keep their
\* values, and its own slot and the slots of the records after it stay absent.
C3_WrongLengthFailsTlv ==
    LET recs == Records(Body)
        w == FirstWrongLength(recs)
    IN  ( /\ FrameComplete
          /\ WellFramed(Body)
          /\ w > 0
          /\ \A i \in 1..(w - 1) : Recognized(recs[i]) /\ ValidValue(recs[i]) )
        => /\ last.cmd # ""
           /\ last.tlv = BagOf(SubSeq(recs, 1, w - 1))

\* the stream starts with the magic and version 1
HeaderAccepted ==
    /\ Len(data) >= 17
    /\ SubSeq(data, 1, 13) = CORRECT_MAGIC
    /\ SubSeq(data, 14, 17) = VERSION_ONE

\* C4: parse returns Err, with no snapshot and no command executed, whenever
\* the first 13 bytes are not the magic or the next four are not version 1 (a
\* stream too short to hold them has neither); a source that ends with EOF
\* makes parse return Err in no other way.
C4_HeaderValidation ==
    /\ (pc # "start" /\ ~HeaderAccepted)
          => /\ pc = "done"
             /\ ret = "Err"
             /\ result = <<>>
             /\ current_subvol = None
             /\ command_no = 0
    /\ (fail = {} /\ ret = "Err") => ~HeaderAccepted

C4_Witness ==
    /\ pc = "done"
    /\ ret = "Err"
    /\ Len(data) > 17
    /\ SubSeq(data, 1, 13) = CORRECT_MAGIC

\* C5: once the header is accepted, an error of read_command is caught by the
\* loop: nothing is returned, the snapshots finalized so far stay, the loop
\* goes on with the next frame (the reader stands behind the frame that
\* failed, when the source holds it whole), and when parse returns it returns
\* Ok with the snapshots of the executed End commands.
C5_CommandErrorsCaught ==
    /\ (last.call = "read_command" /\ last.res = "Err")
          => /\ pc = "loop"
             /\ ret = "none"
             /\ result = last.prev_result
             /\ FrameComplete => offset = FrameEnd
    /\ (last.call = "read_command" /\ pc = "done")
          => /\ ret = "Ok"
             /\ result = ended

\* C6: once the source fails its reads after an accepted header, parse
\* eventually returns.
C6_ParseReturns == (pc = "loop" /\ fail # {}) ~> (pc = "done")

\* C7: from a stream that starts with the accepted header and ends with EOF
\* parse returns Ok, and result is then the list of the subvolumes closed by
\* the executed End commands, in the order of those commands; a header with
\* no frame behind it gives the empty list.
C7_OneSnapshotPerEnd ==
    /\ (pc = "done" /\ fail = {} /\ HeaderAccepted) => ret = "Ok"
    /\ (pc = "done" /\ ret = "Ok") => result = ended
    /\ (pc = "done" /\ data = Header /\ fail = {}) => (ret = "Ok" /\ result = <<>>)

C7_Witness ==
    /\ pc = "done"
    /\ ret = "Ok"
    /\ last.start = Len(data)
    /\ Len(result) = 2
    /\ result[1] # result[2]

\* C8: a Subvolume or Snapshot command that finds a subvolume open fails and
\* leaves that subvolume and the results as they were; there is never more
\* than one open subvolume.
C8_StartWhileOpenFails ==
    /\ Len(current_subvol) <= 1
    /\ (last.cmd \in {"Subvolume", "Snapshot"} /\ IsSome(last.prev_cur))
          => /\ last.res = "Err"
             /\ current_subvol = last.prev_cur
             /\ result = last.prev_result

C8_Witness ==
    /\ last.cmd \in {"Subvolume", "Snapshot"}
    /\ IsSome(last.prev_cur)
    /\ DOMAIN Unwrap(last.prev_cur).files # {}

\* C9: an End command that finds no subvolume open fails, appends nothing to
\* the results and leaves no subvolume open.
C9_EndWithoutSubvolumeFails ==
    (last.cmd = "End" /\ ~IsSome(last.prev_cur))
        => /\ last.res = "Err"
           /\ result = last.prev_result
           /\ current_subvol = None

C9_Witness ==
    /\ last.cmd = "End"
    /\ ~IsSome(last.prev_cur)
    /\ Len(result) >= 1

\* C10: an End command that finds a subvolume open appends that subvolume as
\* the last result and leaves none open, and the Subvolume or Snapshot command
\* that comes when none is open succeeds and starts with an empty files map.
C10_EndFinalizes ==
    /\ (last.cmd = "End" /\ IsSome(last.prev_cur))
          => /\ last.res = "Ok(true)"
             /\ result = Append(last.prev_result, Unwrap(last.prev_cur))
             /\ current_subvol = None
    /\ (last.cmd \in {"Subvolume", "Snapshot"} /\ ~IsSome(last.prev_cur))
          => /\ last.res = "Ok(true)"
             /\ IsSome(current_subvol)
             /\ Unwrap(current_subvol).files = NoFiles
             /\ result = last.prev_result

C10_Witness ==
    /\ last.cmd \in {"Subvolume", "Snapshot"}
    /\ last.res = "Ok(true)"
    /\ Len(result) >= 1
    /\ DOMAIN result[Len(result)].files # {}

\* C11: when parse returns while a subvolume is open (started, and no End
\* executed for it), the list it returns is the list of the subvolumes closed
\* by the executed End commands: the return itself adds nothing to it, and the
\* open subvolume is not in it, whatever files it holds.
C11_PartialSubvolumeDiscarded ==
    (pc = "done" /\ IsSome(last.prev_cur))
        => /\ ret = "Ok"
           /\ result = last.prev_result
           /\ result = ended

C11_Witness ==
    /\ pc = "done"
    /\ ret = "Ok"
    /\ IsSome(last.prev_cur)
    /\ DOMAIN Unwrap(last.prev_cur).files # {}
    /\ Len(result) = 1

\* the latest call read a frame that the end of the stream cuts inside one of
\* its records: the 10 header bytes are there, the body is not whole, and the
\* part of the body that is there ends with a part of a record
FrameCutInRecord ==
    /\ last.call = "read_command"
    /\ IsSome(last.size)
    /\ fail = {}
    /\ last.start + 10 <= Len(data)
    /\ FrameEnd > Len(data)
    /\ \E b \in {SubSeq(data, last.start + 11, Len(data))} :
           RecordsLen(Records(b)) < Len(b)

\* C12: the command of a frame that the end of the stream cuts inside a
\* record, read while a subvolume is open, finalizes nothing, whatever its
\* opcode (End too): the results stay the subvolumes of the earlier End
\* commands.
C12_TruncatedFrameFinalizesNothing ==
    (FrameCutInRecord /\ IsSome(last.prev_cur)) => result = last.prev_result

\* the latest operation on subvol, when there is one
LatestIs(cmds) == Len(trail) > 0 /\ trail[1].cmd \in cmds

\* C13: in an overwrite subvolume that only add commands and deletions
\* (Unlink, Rmdir, del_file) have changed, the keys of the files map are the
\* paths whose latest successful operation was an add, each with an entry:
\* a deleted path is absent and no key is a tombstone.
C13_OverwriteKeysAreLiveAdds ==
    (subvol.overwrite /\ live.only_add_del)
        => /\ DOMAIN subvol.files = live.paths
           /\ \A k \in DOMAIN subvol.files : IsSome(subvol.files[k])

C13_Witness ==
    /\ subvol.overwrite
    /\ live.only_add_del
    /\ LatestIs(DeleteCommands \cup {"del_file"})
    /\ trail[1].ok
    /\ live.paths # {}

\* C14: in a subvolume without overwrite, a path that holds an entry and is
\* deleted, by del_file or by an Unlink or Rmdir command, stays a key of the
\* files map, with the value None.
C14_DeleteLeavesTombstone ==
    ( /\ ~subvol.overwrite
      /\ LatestIs(DeleteCommands \cup {"del_file"})
      /\ trail[1].ok
      /\ trail[1].path \in DOMAIN trail[1].before.files
      /\ IsSome(trail[1].before.files[trail[1].path]) )
        => /\ trail[1].path \in DOMAIN subvol.files
           /\ subvol.files[trail[1].path] = None

\* C16: no key of an overwrite subvolume is mapped to None, whatever adds,
\* deletions, renames, copies and modifications were applied to it.
C16_TombstoneOnlyWithoutOverwrite ==
    subvol.overwrite => \A k \in DOMAIN subvol.files : IsSome(subvol.files[k])

C16_Witness ==
    /\ subvol.overwrite
    /\ ~live.only_add_del
    /\ LatestIs({"del_file"})
    /\ trail[1].ok
    /\ DOMAIN subvol.files # {}

\* scenario S5: Snapshot, MkDir "a", Unlink "a", End
S5Stream ==
    Header \o Frame(2, Tlv(1, Uuid2)) \o Frame(4, Tlv(15, PathA)) \o Frame(11, Tlv(15, PathA))
           \o Frame(21, <<>>)

\* C15: the stream Snapshot, MkDir p, Unlink p, End gives one snapshot without
\* overwrite whose files map has no key p, neither an entry nor a tombstone;
\* the Unlink finds p in the map and takes it out.
C15_SnapshotUnlinkLeavesNoEntry ==
    /\ (data = S5Stream /\ fail = {} /\ pc = "done")
          => /\ ret = "Ok"
             /\ result = <<NewSubvolume(Uuid2, FALSE)>>
    /\ (data = S5Stream /\ fail = {} /\ last.cmd = "Unlink")
          => /\ last.res = "Ok(true)"
             /\ from_bytes(PathA) \in DOMAIN Unwrap(last.prev_cur).files
             /\ from_bytes(PathA) \notin DOMAIN Unwrap(current_subvol).files

C15_Witness ==
    /\ data = S5Stream
    /\ fail = {}
    /\ pc = "done"
    /\ Len(result) = 1
    /\ ~result[1].overwrite

\* C17: a Subvolume command that succeeds starts a subvolume with overwrite,
\* a Snapshot command one without, with the value of the UUID TLV of the
\* command as its source (the largest u128 when the command has none); no
\* command changes the source or the flag of the open subvolume, and the
\* snapshot an End command appends carries both.
C17_SourceAndOverwriteFixed ==
    /\ (last.cmd \in {"Subvolume", "Snapshot"} /\ last.res = "Ok(true)")
          => /\ IsSome(current_subvol)
             /\ Unwrap(current_subvol).overwrite = (last.cmd = "Subvolume")
             /\ Unwrap(current_subvol).source =
                    (IF IsSome(last.tlv.UUID) THEN Unwrap(last.tlv.UUID) ELSE MaxU128)
    /\ (last.call = "read_command" /\ IsSome(last.prev_cur) /\ IsSome(current_subvol))
          => /\ Unwrap(current_subvol).source = Unwrap(last.prev_cur).source
             /\ Unwrap(current_subvol).overwrite = Unwrap(last.prev_cur).overwrite
    /\ (last.cmd = "End" /\ last.res = "Ok(true)")
          => /\ result[Len(result)].source = Unwrap(last.prev_cur).source
             /\ result[Len(result)].overwrite = Unwrap(last.prev_cur).overwrite

C17_Witness ==
    /\ last.cmd = "End"
    /\ last.res = "Ok(true)"
    /\ ~result[Len(result)].overwrite
    /\ result[Len(result)].source = Uuid2
    /\ DOMAIN result[Len(result)].files # {}

\* the keys other than ks hold in subvol what they held before the latest
\* operation
OthersKept(ks) ==
    /\ DOMAIN subvol.files \ ks = DOMAIN trail[1].before.files \ ks
    /\ \A k \in DOMAIN subvol.files \ ks : subvol.files[k] = trail[1].before.files[k]

\* C18: a Rename of a path that is a key moves its slot, as it is, to the
\* destination and leaves no key at the source (when the two differ) and the
\* other keys as they were; a Rename of a path that is no key fails and changes
\* nothing; after Rename A -> B and Rename B -> C, A, B and C distinct, the slot
\* that was at A is at C and neither A nor B is a key.
C18_RenameMovesEntry ==
    /\ (LatestIs({"Rename"}) /\ trail[1].path \in DOMAIN trail[1].before.files)
          => /\ trail[1].ok
             /\ trail[1].to \in DOMAIN subvol.files
             /\ subvol.files[trail[1].to] = trail[1].before.files[trail[1].path]
             /\ trail[1].path # trail[1].to => trail[1].path \notin DOMAIN subvol.files
             /\ OthersKept({trail[1].path, trail[1].to})
    /\ (LatestIs({"Rename"}) /\ trail[1].path \notin DOMAIN trail[1].before.files)
          => /\ ~trail[1].ok
             /\ subvol = trail[1].before
    /\ ( /\ LatestIs({"Rename"})
         /\ trail[1].ok
         /\ Len(trail) = 2
         /\ trail[1].path = trail[2].to
         /\ Cardinality({trail[2].path, trail[2].to, trail[1].to}) = 3 )
          => /\ trail[1].to \in DOMAIN subvol.files
             /\ subvol.files[trail[1].to] = trail[2].before.files[trail[2].path]
             /\ trail[2].path \notin DOMAIN subvol.files
             /\ trail[2].to \notin DOMAIN subvol.files

C18_Witness ==
    /\ LatestIs({"Rename"})
    /\ trail[1].ok
    /\ Len(trail) = 2
    /\ trail[1].path = trail[2].to
    /\ Cardinality({trail[2].path, trail[2].to, trail[1].to}) = 3
    /\ IsSome(subvol.files[trail[1].to])

\* the clone copy_file makes of a slot for the key to
CloneAs(slot, to) == IF IsSome(slot) THEN Some([Unwrap(slot) EXCEPT !.filename = to]) ELSE None

\* C19: copy_file (Link, Clone) on a source that is a key keeps the slot at
\* the source unchanged and puts at the destination a clone with the
\* destination as filename and the other attributes of the source, a
\* tombstone when the source is one; on a source that is no key it fails and
\* leaves the map unchanged.
C19_CopyKeepsSource ==
    /\ (LatestIs(CopyCommands) /\ trail[1].path \in DOMAIN trail[1].before.files)
          => /\ trail[1].ok
             /\ trail[1].to \in DOMAIN subvol.files
             /\ subvol.files[trail[1].to] =
                    CloneAs(trail[1].before.files[trail[1].path], trail[1].to)
             /\ subvol.files[trail[1].path] = trail[1].before.files[trail[1].path]
             /\ OthersKept({trail[1].path, trail[1].to})
    /\ (LatestIs(CopyCommands) /\ trail[1].path \notin DOMAIN trail[1].before.files)
          => /\ ~trail[1].ok
             /\ subvol = trail[1].before

\* the fields the closure of a modifying command assigns, with their values
Mutator(cmd) ==
    CASE cmd = "Chmod" -> [permissions |-> Mode755]
      [] cmd = "Chown" -> [user_id |-> MaxU64, group_id |-> MaxU64]
      [] cmd = "Utimes" -> [accessed |-> default_dt, created |-> default_dt,
                            modified |-> default_dt]

\* C20: modify (Chmod, Chown, Utimes) fails on a path that is no key and on a
\* path whose slot is a tombstone, and changes nothing then; on an entry it
\* succeeds and assigns the fields of its closure in that entry, leaving its
\* other fields and the other keys as they were.
C20_ModifyOnlyEntries ==
    /\ ( /\ LatestIs(ModifyCommands)
         /\ \/ trail[1].path \notin DOMAIN trail[1].before.files
            \/ trail[1].before.files[trail[1].path] = None )
          => /\ ~trail[1].ok
             /\ subvol = trail[1].before
    /\ ( /\ LatestIs(ModifyCommands)
         /\ trail[1].path \in DOMAIN trail[1].before.files
         /\ IsSome(trail[1].before.files[trail[1].path]) )
          => /\ trail[1].ok
             /\ trail[1].path \in DOMAIN subvol.files
             /\ IsSome(subvol.files[trail[1].path])
             /\ \A k \in DOMAIN Unwrap(subvol.files[trail[1].path]) :
                    Unwrap(subvol.files[trail[1].path])[k] =
                        IF k \in DOMAIN Mutator(trail[1].cmd)
                        THEN Mutator(trail[1].cmd)[k]
                        ELSE Unwrap(trail[1].before.files[trail[1].path])[k]
             /\ OthersKept({trail[1].path})

C20_Witness ==
    /\ LatestIs(ModifyCommands)
    /\ trail[1].path \in DOMAIN trail[1].before.files
    /\ trail[1].before.files[trail[1].path] = None
    /\ ~trail[1].ok

\* the latest command found the entry of its Path in the open subvolume
OnEntry ==
    /\ last.call = "read_command"
    /\ IsSome(last.tlv.Path)
    /\ IsSome(last.prev_cur)
    /\ Unwrap(last.tlv.Path) \in DOMAIN Unwrap(last.prev_cur).files
    /\ IsSome(Unwrap(last.prev_cur).files[Unwrap(last.tlv.Path)])

\* the entry of the Path of the latest command, after it
EntryNow == Unwrap(Unwrap(current_subvol).files[Unwrap(last.tlv.Path)])

\* the value of a slot of the latest command, def when the slot is absent
SlotOr(slot, def) == IF IsSome(last.tlv[slot]) THEN Unwrap(last.tlv[slot]) ELSE def

\* C21: a Utimes command on an entry succeeds and sets accessed, created and
\* modified to the values of its Atime, Ctime and Mtime TLVs, and to
\* default_dt for each of them that is absent, whatever the entry held.
C21_UtimesDefaults ==
    (last.cmd = "Utimes" /\ OnEntry)
        => /\ last.res = "Ok(true)"
           /\ EntryNow.accessed = SlotOr("Atime", default_dt)
           /\ EntryNow.created = SlotOr("Ctime", default_dt)
           /\ EntryNow.modified = SlotOr("Mtime", default_dt)

C21_Witness ==
    /\ last.cmd = "Utimes"
    /\ OnEntry
    /\ IsSome(last.tlv.Atime)
    /\ ~IsSome(last.tlv.Ctime)
    /\ Unwrap(Unwrap(last.prev_cur).files[Unwrap(last.tlv.Path)]).created = EpochZero
    /\ EntryNow.created = default_dt

\* C22: tlv_get_auto never fails: it gives the value of the slot, and the
\* largest value of the slot's type when the slot is absent.  A Chmod sets
\* permissions to its Mode or to 2^64-1, a Chown sets each id to its Uid and
\* Gid or to 2^64-1, a Subvolume or Snapshot that finds no subvolume open
\* starts one with its UUID or with 2^128-1.
C22_AutoDefaultsToMax ==
    /\ last.call = "read_command"
          => \A slot \in {"Mode", "Uid", "Gid", "Rdev"} :
                 /\ tlv_get_auto(last.tlv[slot], MaxU64).ok
                 /\ tlv_get_auto(last.tlv[slot], MaxU64).val = SlotOr(slot, Rep(255, 8))
    /\ (last.cmd = "Chmod" /\ OnEntry)
          => /\ last.res = "Ok(true)"
             /\ EntryNow.permissions = SlotOr("Mode", Rep(255, 8))
    /\ (last.cmd = "Chown" /\ OnEntry)
          => /\ last.res = "Ok(true)"
             /\ EntryNow.user_id = SlotOr("Uid", Rep(255, 8))
             /\ EntryNow.group_id = SlotOr("Gid", Rep(255, 8))
    /\ (last.cmd \in {"Subvolume", "Snapshot"} /\ ~IsSome(last.prev_cur))
          => /\ last.res = "Ok(true)"
             /\ IsSome(current_subvol)
             /\ Unwrap(current_subvol).source = SlotOr("UUID", Rep(255, 16))

C22_Witness ==
    /\ last.cmd = "Chown"
    /\ OnEntry
    /\ IsSome(last.tlv.Uid)
    /\ ~IsSome(last.tlv.Gid)
    /\ EntryNow.group_id = Rep(255, 8)
    /\ Unwrap(current_subvol).source = Rep(255, 16)

\* the slots a command cannot do without
Required(cmd) ==
    CASE cmd \in {"MkFile", "MkDir", "MkNod", "MkSock", "MkFIFO", "Unlink", "Rmdir",
                  "Chmod", "Chown", "Utimes"} -> {"Path"}
      [] cmd \in {"Symlink", "Link"} -> {"Path", "PathLink"}
      [] cmd = "Rename" -> {"Path", "PathTo"}
      [] cmd = "Clone" -> {"Path", "ClonePath"}
      [] OTHER -> {}

\* C23: a command that lacks a TLV it requires (Path for the file commands,
\* PathTo for Rename, PathLink for Symlink and Link, ClonePath for Clone)
\* fails with InvalidData and leaves the open subvolume and the results as
\* they were.
C23_RequiredTlvMissing ==
    (last.call = "read_command" /\ \E slot \in Required(last.cmd) : ~IsSome(last.tlv[slot]))
        => /\ last.res = "Err"
           /\ last.err = "InvalidData"
           /\ current_subvol = last.prev_cur
           /\ result = last.prev_result

C23_Witness ==
    /\ last.cmd = "Rename"
    /\ OnEntry
    /\ ~IsSome(last.tlv.PathTo)
    /\ last.res = "Err"

\* the entry of a file just made: nothing but the name, the mode and the type
NewEntry(path, filetype, mode) ==
    [filename |-> path, permissions |-> mode,
     modified |-> [secs |-> Rep(0, 8), nanos |-> Rep(0, 4)],
     accessed |-> [secs |-> Rep(0, 8), nanos |-> Rep(0, 4)],
     created |-> [secs |-> Rep(0, 8), nanos |-> Rep(0, 4)],
     length |-> Rep(0, 8), user_id |-> Rep(0, 8), group_id |-> Rep(0, 8),
     filetype |-> filetype]

\* C24: an add (MkFile, MkDir, MkNod, MkSock, MkFIFO, Symlink: add_file with
\* the type and mode of the arm) succeeds and leaves at its path an entry with
\* that path as filename, that mode, the three times at the epoch, length 0,
\* user and group 0 and that type, whatever the path held before (nothing, an
\* entry or a tombstone), and leaves the other keys as they were.
C24_AddFileReplaces ==
    LatestIs(AddCommands)
        => /\ trail[1].ok
           /\ trail[1].path \in DOMAIN subvol.files
           /\ subvol.files[trail[1].path] =
                  Some(NewEntry(trail[1].path,
                                IF trail[1].cmd = "Symlink" THEN "Symlink" ELSE "Directory",
                                IF trail[1].cmd \in {"MkNod", "MkSock", "MkFIFO"}
                                THEN Mode755 ELSE Rep(0, 8)))
           /\ OthersKept({trail[1].path})

C24_Witness ==
    /\ LatestIs(AddCommands)
    /\ trail[1].path \in DOMAIN trail[1].before.files
    /\ trail[1].before.files[trail[1].path] = None
    /\ IsSome(subvol.files[trail[1].path])

\* C25: del_file fails on a path that is no key and on a path whose slot is
\* a tombstone, and changes nothing then; on an entry it succeeds, takes the
\* key out when overwrite is set and puts a tombstone in its place when not,
\* and leaves the other keys as they were.
C25_DelFile ==
    /\ ( /\ LatestIs({"del_file"})
         /\ \/ trail[1].path \notin DOMAIN trail[1].before.files
            \/ trail[1].before.files[trail[1].path] = None )
          => /\ ~trail[1].ok
             /\ subvol = trail[1].before
    /\ ( /\ LatestIs({"del_file"})
         /\ trail[1].path \in DOMAIN trail[1].before.files
         /\ IsSome(trail[1].before.files[trail[1].path]) )
          => /\ trail[1].ok
             /\ subvol.overwrite => trail[1].path \notin DOMAIN subvol.files
             /\ ~subvol.overwrite => /\ trail[1].path \in DOMAIN subvol.files
                                      /\ subvol.files[trail[1].path] = None
             /\ OthersKept({trail[1].path})
             /\ subvol.overwrite = trail[1].before.overwrite

C25_Witness ==
    /\ LatestIs({"del_file"})
    /\ ~subvol.overwrite
    /\ trail[1].path \in DOMAIN trail[1].before.files
    /\ trail[1].before.files[trail[1].path] = None
    /\ ~trail[1].ok

\* the latest command names, in a subvolume without overwrite, a path that is
\* no key of the files map
PathMissing ==
    /\ last.call = "read_command"
    /\ last.cmd \in {"Rename", "Unlink", "Rmdir", "Link", "Clone", "Chmod", "Chown", "Utimes"}
    /\ IsSome(last.prev_cur)
    /\ ~Unwrap(last.prev_cur).overwrite
    /\ IsSome(last.tlv.Path)
    /\ Unwrap(last.tlv.Path) \notin DOMAIN Unwrap(last.prev_cur).files

\* C26: in a subvolume without overwrite, a command on a path that is no key
\* of the files map (Rename, Unlink, Rmdir, Link, Clone, Chmod, Chown, Utimes)
\* returns an InvalidData error and does not panic, leaves the subvolume and
\* the results as they were, and parse goes on with the next frame.
C26_MissingPathFailsCleanly ==
    PathMissing
        => /\ ~Unimplemented(last.cmd, last.tlv, last.prev_cur)
           /\ last.res = "Err"
           /\ last.err = "InvalidData"
           /\ current_subvol = last.prev_cur
           /\ result = last.prev_result
           /\ pc = "loop"
           /\ ret = "none"
           /\ FrameComplete => offset = FrameEnd

\* C26 without the two parts that fail
C26_MissingPathIsAnError ==
    PathMissing
        => /\ last.res = "Err"
           /\ last.err = "InvalidData"
           /\ current_subvol = last.prev_cur
           /\ result = last.prev_result
           /\ pc = "loop"
           /\ ret = "none"

\* C27: bypass_errors changes nothing: parse on a stream with the setting
\* set and parse on the same stream with the setting clear return the same,
\* the same error of the header or the same list of snapshots.
C27_BypassErrorsUnused ==
    (first.kind = "bypass_errors" /\ pc = "done")
        => /\ ret = first.ret
           /\ last.err = first.err
           /\ result = first.result

C27_Witness ==
    /\ first.kind = "bypass_errors"
    /\ pc = "done"
    /\ ret = "Ok"
    /\ Len(data) >= 27
    /\ SubSeq(data, 18, 27) = Frame(21, <<>>)
    /\ Len(result) = 1

\* C28: the checksum is read and ignored: a stream and the stream that
\* differs from it in the checksum field of a frame give the same result of
\* parse.
C28_ChecksumIgnored ==
    (first.kind = "checksum" /\ pc = "done")
        => /\ ret = first.ret
           /\ last.err = first.err
           /\ result = first.result

\* C29: to_bytes of from_bytes of a byte string is that byte string, be it
\* valid UTF-8, with invalid sequences, with a truncated sequence at its end,
\* or empty.
C29_BytesRoundTrip ==
    mixed.stage = "written" /\ ~mixed.reversed => mixed.bytes = mixed.input

C29_Witness ==
    /\ mixed.stage = "written"
    /\ ~mixed.reversed
    /\ Len(mixed.input) = 3
    /\ Len(mixed.segs) = 3
    /\ mixed.segs[1].kind = "String"
    /\ mixed.segs[2].kind = "Byte"
    /\ Len(mixed.segs[2].bytes) = 2
    /\ mixed.segs[3].kind = "UnexpectedEOF"

\* C30: no two segments that from_bytes puts next to each other are of the
\* same kind.
C30_CoarsestSegments ==
    mixed.stage # "input" /\ ~mixed.reversed
        => \A i \in 1..(Len(mixed.segs) - 1) : mixed.segs[i].kind # mixed.segs[i + 1].kind

\* the MixedString that from_bytes made of the input, before any reverse
Parsed == from_bytes(mixed.input)

\* every String segment that from_bytes made of the input holds clusters of
\* one byte each
SingleByteGraphemes ==
    \A i \in 1..Len(Parsed) :
        Parsed[i].kind = "String"
            => \A j \in 1..Len(graphemes(Parsed[i].bytes)) : Len(graphemes(Parsed[i].bytes)[j]) = 1

\* C31: reverse puts the segments in the opposite order, each raw-byte
\* segment with its bytes in the opposite order; a truncation marker that
\* was the last segment is the first one; and when the valid runs of the
\* input hold single-byte graphemes only, the bytes of the reversed
\* MixedString are the input's bytes in the opposite order.
C31_Reverse ==
    mixed.reversed =>
        /\ Len(mixed.segs) = Len(Parsed)
        /\ \A i \in 1..Len(Parsed) :
               /\ mixed.segs[Len(Parsed) + 1 - i].kind = Parsed[i].kind
               /\ Parsed[i].kind = "Byte"
                      => mixed.segs[Len(Parsed) + 1 - i].bytes = Rev(Parsed[i].bytes)
        /\ Parsed[Len(Parsed)].kind = "UnexpectedEOF" => mixed.segs[1].kind = "UnexpectedEOF"
        /\ mixed.stage = "written" /\ SingleByteGraphemes => mixed.bytes = Rev(mixed.input)

C31_Witness ==
    /\ mixed.reversed
    /\ mixed.stage = "written"
    /\ mixed.input = <<97, 226, 128>>
    /\ SingleByteGraphemes

\* the little-endian u64 of a number below 2^31
ToBytes8(n) == [i \in 1..8 |-> IF i <= 4 THEN (n \div 256 ^ (i - 1)) % 256 ELSE 0]

\* bytes * m + c on little-endian bytes, wrapping
RECURSIVE TimesPlus(_, _, _)
TimesPlus(bytes, m, c) ==
    IF Len(bytes) = 0 THEN <<>>
    ELSE <<(bytes[1] * m + c) % 256>> \o TimesPlus(Tail(bytes), m, (bytes[1] * m + c) \div 256)

\* the seconds and the nanoseconds a whole timespec in data holds
SecondsField == SubSeq(data, 1, 8)

NanosField == SubSeq(data, 9, 12)

\* the seconds lie above i64::MAX, or the pair is no timestamp chrono holds
BadTimespec ==
    \/ SecondsField[8] >= 128
    \/ ~LeLess(SecondsField, SECS_LIMIT)
    \/ ~LeLess(NanosField, NANOS_LIMIT)

\* read_timespec returned the timestamp that lies the seconds and the
\* nanoseconds read after the epoch
RightTimestamp(out) ==
    /\ out.ok
    /\ IsSome(out.dt)
    /\ Unwrap(out.dt).days >= 0
    /\ TimesPlus(ToBytes8(Unwrap(out.dt).days), 86400, Unwrap(out.dt).secs) = SecondsField
    /\ Unwrap(out.dt).frac = ToInt(NanosField)

\* C32: read_timespec fails with InvalidData when the seconds lie above
\* i64::MAX or the pair is no valid timestamp; otherwise it returns the
\* timestamp seconds * 10^9 + nanos nanoseconds after the epoch.
C32_ReadTimespec ==
    timespec.stage = "read" /\ Len(data) = 12 =>
        IF BadTimespec THEN ~timespec.out.ok /\ timespec.out.err = "InvalidData"
        ELSE RightTimestamp(timespec.out)

\* the same of the read_timespec of btrfs/utils.rs alone
C32_ReadTimespecUtils == timespec.by = "btrfs/utils.rs" => C32_ReadTimespec

\* the entries a subvolume holds
EntriesOf(sv) == {Unwrap(sv.files[k]) : k \in {k \in DOMAIN sv.files : IsSome(sv.files[k])}}

\* the entries of the open subvolume and of the snapshots in the results
AllEntries ==
    UNION ({EntriesOf(current_subvol[i]) : i \in 1..Len(current_subvol)}
           \cup {EntriesOf(result[i]) : i \in 1..Len(result)})

\* the latest command is one of cmds, has the TLVs it requires and found a
\* subvolume open
Adds(cmds) ==
    /\ last.call = "read_command"
    /\ last.cmd \in cmds
    /\ IsSome(last.prev_cur)
    /\ \A slot \in Required(last.cmd) : IsSome(last.tlv[slot])

\* C33: MkFile and MkDir add a Directory entry with permissions 0 at Path;
\* MkNod, MkFIFO and MkSock add a Directory entry with the Mode TLV as
\* permissions, 2^64-1 when Mode is absent; Symlink adds a Symlink entry
\* with permissions 0; no command makes an entry of type File.
C33_OpcodeToEntry ==
    /\ Adds({"MkFile", "MkDir"})
          => /\ last.res = "Ok(true)"
             /\ EntryNow.filetype = "Directory"
             /\ EntryNow.permissions = Rep(0, 8)
    /\ Adds({"MkNod", "MkFIFO", "MkSock"})
          => /\ last.res = "Ok(true)"
             /\ EntryNow.filetype = "Directory"
             /\ EntryNow.permissions = SlotOr("Mode", Rep(255, 8))
    /\ Adds({"Symlink"})
          => /\ last.res = "Ok(true)"
             /\ EntryNow.filetype = "Symlink"
             /\ EntryNow.permissions = Rep(0, 8)
    /\ \A e \in AllEntries : e.filetype # "File"

C33_Witness ==
    /\ Adds({"MkFIFO"})
    /\ ~IsSome(last.tlv.Mode)
    /\ EntryNow.filetype = "Directory"
    /\ EntryNow.permissions = Rep(255, 8)
    /\ \E e \in AllEntries : e.filetype = "Symlink"

\* the commands whose arm is empty, and the other commands on files
EmptyArms == {"SetXattr", "RemoveXattr", "Unknown"}

FileCommands ==
    {"MkFile", "MkDir", "MkNod", "MkFIFO", "MkSock", "Symlink", "Rename", "Link", "Unlink",
     "Rmdir", "Clone", "Chmod", "Chown", "Utimes"}

\* C34: SetXattr, RemoveXattr and a command of an unknown opcode succeed and
\* leave the open subvolume and the results as they were, also when no
\* subvolume is open; every other file command fails when none is open.
C34_NoOpCommands ==
    /\ (last.call = "read_command" /\ last.cmd \in EmptyArms)
          => /\ last.res = "Ok(true)"
             /\ current_subvol = last.prev_cur
             /\ result = last.prev_result
    /\ (last.call = "read_command" /\ last.cmd \in FileCommands /\ ~IsSome(last.prev_cur))
          => /\ last.res = "Err"
             /\ current_subvol = None

C34_Witness ==
    /\ last.call = "read_command"
    /\ last.cmd = "RemoveXattr"
    /\ ~IsSome(last.prev_cur)
    /\ last.res = "Ok(true)"
    /\ Len(result) = 1

\* the bytes between the reader and the end of the stream
BytesLeft == Len(data) - offset

\* the parser keeps its subvolume, its results and its command count
ParserKept == UNCHANGED <<current_subvol, result, command_no>>

\* C35: a read_command that finds fewer than four bytes before the end of
\* the stream returns Ok(false), runs no command and ends the loop; one that
\* finds the size field but not the whole opcode and checksum returns an
\* UnexpectedEof error, runs no command, keeps the parser state and leaves
\* the reader at the end, where the next iteration stops the loop.
C35_EofAtSizeStops ==
    [][ (pc = "loop" /\ fail = {})
            => /\ BytesLeft < 4
                    => /\ last'.res = "Ok(false)"
                       /\ last'.cmd = ""
                       /\ ParserKept
                       /\ pc' = "done"
                       /\ ret' = "Ok"
               /\ BytesLeft \in 4..9
                    => /\ last'.res = "Err"
                       /\ last'.err = "UnexpectedEof"
                       /\ last'.cmd = ""
                       /\ ParserKept
                       /\ pc' = "loop"
                       /\ offset' = Len(data) ]_vars

C35_Witness ==
    /\ pc = "loop"
    /\ fail = {}
    /\ last.call = "read_command"
    /\ last.res = "Err"
    /\ last.err = "UnexpectedEof"
    /\ Len(data) - last.start \in 4..9
    /\ offset = Len(data)
    /\ IsSome(current_subvol)

\* C36: on a stream that ends with EOF every read_command call consumes at
\* least four bytes or returns Ok(false), and the loop of parse comes to its
\* end, whatever the stream holds.
C36_LoopTerminates ==
    /\ [][ (pc = "loop" /\ fail = {}) => (offset' >= offset + 4 \/ last'.res = "Ok(false)") ]_vars
    /\ (pc = "loop" /\ fail = {}) ~> (pc = "done")

C36_Witness ==
    /\ pc = "done"
    /\ fail = {}
    /\ last.call = "read_command"
    /\ last.res = "Ok(false)"
    /\ command_no = 1
    /\ Len(data) > last.start
    /\ Len(data) > Len(Header) + 40

\* C37: a command that read_command returns an error for leaves the open
\* subvolume (there or not, its source, its overwrite flag, its files) and
\* the results as they were before it.
C37_FailureAtomic ==
    (last.call = "read_command" /\ last.res = "Err")
        => /\ current_subvol = last.prev_cur
           /\ result = last.prev_result

C37_Witness ==
    /\ last.call = "read_command"
    /\ last.res = "Err"
    /\ last.cmd = "Rename"
    /\ IsSome(last.tlv.Path)
    /\ IsSome(last.tlv.PathTo)
    /\ IsSome(current_subvol)
    /\ EntriesOf(Unwrap(current_subvol)) # {}
    /\ Unwrap(last.tlv.Path) \notin DOMAIN Unwrap(current_subvol).files

\* the keys of a subvolume whose slot holds an entry
PresentKeys(sv) == {k \in DOMAIN sv.files : IsSome(sv.files[k])}

\* every entry of the subvolume carries its key as filename
FilenamesAreKeys(sv) == \A k \in PresentKeys(sv) : Unwrap(sv.files[k]).filename = k

\* C38: in the open subvolume and in every snapshot of the results, each
\* entry files[k] = Some(info) has info.filename = k.
C38_FilenameIsKey ==
    /\ \A i \in 1..Len(current_subvol) : FilenamesAreKeys(current_subvol[i])
    /\ \A i \in 1..Len(result) : FilenamesAreKeys(result[i])

\* C39: the results change only by an End command that is executed, which
\* appends the subvolume it closes; the snapshots that were in the results
\* stay as they were and where they were, whatever commands follow, until
\* parse returns them.
C39_SnapshotsImmutable ==
    [][ /\ Len(result') >= Len(result)
        /\ SubSeq(result', 1, Len(result)) = result
        /\ result' # result
               => /\ last'.cmd = "End"
                  /\ last'.res = "Ok(true)"
                  /\ IsSome(current_subvol)
                  /\ result' = Append(result, Unwrap(current_subvol)) ]_vars

C39_Witness ==
    /\ Len(result) = 1
    /\ IsSome(current_subvol)
    /\ last.cmd = "Chmod"
    /\ last.res = "Ok(true)"
    /\ from_bytes(PathA) \in PresentKeys(result[1])
    /\ from_bytes(PathA) \in PresentKeys(Unwrap(current_subvol))
    /\ Unwrap(result[1].files[from_bytes(PathA)]).permissions = Rep(0, 8)
    /\ Unwrap(Unwrap(current_subvol).files[from_bytes(PathA)]).permissions = Mode755

====
